---- MODULE Spec2Model ----
(***************************************************************************)
(* Model of the geobedts query engine: GeoBed.create, geocode (scored and  *)
(* exact mode, qualifier extraction) and reverseGeocode, together with the *)
(* process-wide state they share (string interners, the lazily read        *)
(* admin-division table, the files on disk).                               *)
(*                                                                         *)
(* Strings are TLA+ strings handled character by character; the JS string  *)
(* methods the code calls are the operators of the first section.          *)
(* Coordinates are integers in hundredths of a degree; angles in radians   *)
(* are integers in units of 1e-7 rad.                                      *)
(***************************************************************************)
EXTENDS Integers, Sequences, FiniteSets, TLC

VARIABLES
    initialized,     \* string-interner.ts: module flag `initialized`
    countryLookup,   \* countryInterner.lookup (<<>> while the interner is null)
    regionLookup,    \* regionInterner.lookup
    adminCache,      \* admin-divisions.ts: adminDivisionsCache, by data dir
    dataFiles,       \* disk: data dirs whose GeoNames files are present
    cacheStore,      \* disk: content of each cache dir
    facades,         \* the GeoBed instances, by handle
    last,            \* the call that returned last, with what it computed
    held,            \* an earlier geocode call the client kept for comparison
    defaultGeoBed,         \* geobed.ts: module variable, 0 for null
    defaultGeoBedPromise,  \* geobed.ts: module variable, 0 for null
    constructions,   \* the GeoBed.create() calls getDefaultGeobed started
    callers,         \* the callers of getDefaultGeobed and what they hold
    interner,        \* a StringInterner object: its lookup and index fields
    creating         \* the GeoBed.create calls in progress, by handle

\* The state of the default-instance helper and of the interner object.
helperVars ==
    <<defaultGeoBed, defaultGeoBedPromise, constructions, callers, interner, creating>>

vars == <<initialized, countryLookup, regionLookup, adminCache, dataFiles,
          cacheStore, facades, last, held, helperVars>>

-----------------------------------------------------------------------------
(* Characters and the JS string methods used by the code.                  *)

\* The characters of the model in UTF-16 code-unit order (the order of the
\* JS `<` on strings that compareCaseInsensitive uses).
CharOrder == "\t ,-ABCDEFGHIJKLMNOPQRSTUVWXYZabcdefghijklmnopqrstuvwxyzÉé"
UpperChars == "ABCDEFGHIJKLMNOPQRSTUVWXYZÉ"
LowerChars == "abcdefghijklmnopqrstuvwxyzé"

CharAt(s, i) == SubSeq(s, i, i)
Chars == { CharAt(CharOrder, i) : i \in 1..Len(CharOrder) }

CharCode == [c \in Chars |-> CHOOSE i \in 1..Len(CharOrder) : CharAt(CharOrder, i) = c]

LowerOf == [c \in Chars |->
              IF \E i \in 1..Len(UpperChars) : CharAt(UpperChars, i) = c
              THEN CharAt(LowerChars, CHOOSE i \in 1..Len(UpperChars) : CharAt(UpperChars, i) = c)
              ELSE c]

UpperOf == [c \in Chars |->
              IF \E i \in 1..Len(LowerChars) : CharAt(LowerChars, i) = c
              THEN CharAt(UpperChars, CHOOSE i \in 1..Len(LowerChars) : CharAt(LowerChars, i) = c)
              ELSE c]

\* NFD decomposition followed by removal of the combining marks.
BaseOf == [c \in Chars |-> IF c = "é" THEN "e" ELSE IF c = "É" THEN "E" ELSE c]

IsWhite(c) == c \in {" ", "\t"}                       \* regex \s
IsAsciiUpper(c) == c \in { CharAt(UpperChars, i) : i \in 1..26 }   \* regex [A-Z]
IsWordChar(c) ==                                      \* regex \w
    c \in { CharAt(UpperChars, i) : i \in 1..26 } \cup { CharAt(LowerChars, i) : i \in 1..26 }

RECURSIVE MapChars(_, _)
MapChars(f, s) ==
    IF s = "" THEN "" ELSE f[CharAt(s, 1)] \o MapChars(f, SubSeq(s, 2, Len(s)))

toLower(s) == MapChars(LowerOf, s)
toUpper(s) == MapChars(UpperOf, s)
stripDiacritics(s) == MapChars(BaseOf, s)

\* String.prototype.substring(a, b) with 0-based a and exclusive b.
Substring(s, a, b) == SubSeq(s, a + 1, b)

StartsWith(s, p) == Len(s) >= Len(p) /\ SubSeq(s, 1, Len(p)) = p
EndsWith(s, p) == Len(s) >= Len(p) /\ SubSeq(s, Len(s) - Len(p) + 1, Len(s)) = p
Includes(s, p) == \E i \in 0..(Len(s) - Len(p)) : SubSeq(s, i + 1, i + Len(p)) = p

\* String.prototype.trim()
RECURSIVE TrimLeft(_)
TrimLeft(s) ==
    IF s # "" /\ IsWhite(CharAt(s, 1)) THEN TrimLeft(SubSeq(s, 2, Len(s))) ELSE s
RECURSIVE TrimRight(_)
TrimRight(s) ==
    IF s # "" /\ IsWhite(CharAt(s, Len(s))) THEN TrimRight(SubSeq(s, 1, Len(s) - 1)) ELSE s
Trim(s) == TrimRight(TrimLeft(s))

\* s.replace(/\s+/g, ' ')
RECURSIVE CollapseWhitespace(_)
CollapseWhitespace(s) ==
    IF s = "" THEN ""
    ELSE IF IsWhite(CharAt(s, 1))
         THEN " " \o CollapseWhitespace(TrimLeft(s))
         ELSE CharAt(s, 1) \o CollapseWhitespace(SubSeq(s, 2, Len(s)))

\* A replacement that removes the last character whatever it is: /.$/
StripTrailingChar(s) ==
    IF s # "" THEN SubSeq(s, 1, Len(s) - 1) ELSE s

\* s.replace(/,$/g, '')
StripTrailingComma(s) ==
    IF s # "" /\ CharAt(s, Len(s)) = "," THEN SubSeq(s, 1, Len(s) - 1) ELSE s

\* s.replace(/^[, ]+|[, ]+$/g, '')
RECURSIVE StripCommaSpaceLeft(_)
StripCommaSpaceLeft(s) ==
    IF s # "" /\ CharAt(s, 1) \in {",", " "}
    THEN StripCommaSpaceLeft(SubSeq(s, 2, Len(s))) ELSE s
RECURSIVE StripCommaSpaceRight(_)
StripCommaSpaceRight(s) ==
    IF s # "" /\ CharAt(s, Len(s)) \in {",", " "}
    THEN StripCommaSpaceRight(SubSeq(s, 1, Len(s) - 1)) ELSE s
StripCommaSpace(s) == StripCommaSpaceRight(StripCommaSpaceLeft(s))

\* s.split(sep) for a one-character separator: "" splits into <<"">>.
RECURSIVE SplitFrom(_, _, _)
SplitFrom(s, sep, cur) ==
    IF s = "" THEN <<cur>>
    ELSE IF CharAt(s, 1) = sep
         THEN <<cur>> \o SplitFrom(SubSeq(s, 2, Len(s)), sep, "")
         ELSE SplitFrom(SubSeq(s, 2, Len(s)), sep, cur \o CharAt(s, 1))
Split(s, sep) == SplitFrom(s, sep, "")

\* parts.join(' ')
RECURSIVE Join(_)
Join(parts) ==
    IF parts = <<>> THEN ""
    ELSE IF Len(parts) = 1 THEN parts[1]
    ELSE parts[1] \o " " \o Join(Tail(parts))

\* JS `a < b` on strings: lexicographic by code unit.
RECURSIVE StrLess(_, _)
StrLess(a, b) ==
    IF b = "" THEN FALSE
    ELSE IF a = "" THEN TRUE
    ELSE IF CharAt(a, 1) = CharAt(b, 1)
         THEN StrLess(SubSeq(a, 2, Len(a)), SubSeq(b, 2, Len(b)))
         ELSE CharCode[CharAt(a, 1)] < CharCode[CharAt(b, 1)]

compareCaseInsensitive(a, b) ==
    LET Compare(aLower, bLower) ==
            IF StrLess(aLower, bLower) THEN -1
            ELSE IF StrLess(bLower, aLower) THEN 1 ELSE 0
    IN Compare(toLower(a), toLower(b))

\* The matches of /\b([A-Z]{2,3})\b/g: the maximal runs of word characters
\* that consist of two or three ASCII capitals.
RECURSIVE WordsFrom(_, _)
WordsFrom(s, cur) ==
    IF s = "" THEN (IF cur = "" THEN <<>> ELSE <<cur>>)
    ELSE IF IsWordChar(CharAt(s, 1))
         THEN WordsFrom(SubSeq(s, 2, Len(s)), cur \o CharAt(s, 1))
         ELSE (IF cur = "" THEN <<>> ELSE <<cur>>) \o WordsFrom(SubSeq(s, 2, Len(s)), "")

IsAbbrev(w) ==
    /\ Len(w) \in {2, 3}
    /\ \A i \in 1..Len(w) : IsAsciiUpper(CharAt(w, i))

AbbrevMatches(n) == SelectSeq(WordsFrom(n, ""), IsAbbrev)

\* `e`, with `v` evaluated first: TLC evaluates operator arguments lazily, and
\* an accumulator handed down a long loop unevaluated nests too deep.
Strict(v, e) == IF v = v THEN e ELSE e

Min(a, b) == IF a < b THEN a ELSE b
Abs(a) == IF a < 0 THEN -a ELSE a

\* fastest-levenshtein `distance`: the edit distance, one row at a time.
RECURSIVE LevNext(_, _, _, _)
LevNext(prevRow, ch, b, acc) ==
    IF Len(acc) = Len(b) + 1 THEN acc
    ELSE LET j == Len(acc)
             cost == IF CharAt(b, j) = ch THEN 0 ELSE 1
             v == Min(Min(prevRow[j + 1] + 1, acc[j] + 1), prevRow[j] + cost)
         IN LevNext(prevRow, ch, b, Append(acc, v))
RECURSIVE LevFrom(_, _, _)
LevFrom(a, b, row) ==
    IF a = "" THEN row[Len(b) + 1]
    ELSE LevFrom(SubSeq(a, 2, Len(a)), b, LevNext(row, CharAt(a, 1), b, <<row[1] + 1>>))
levenshteinDistance(a, b) == LevFrom(a, b, [k \in 1..(Len(b) + 1) |-> k - 1])

fuzzyMatch(query, candidate, maxDist) ==
    IF maxDist = 0 THEN toLower(query) = toLower(candidate)
    ELSE levenshteinDistance(toLower(query), toLower(candidate)) <= maxDist

-----------------------------------------------------------------------------
(* Program constants (types.ts) and the data files.                        *)

S2_CELL_LEVEL == 10
\* The input limit of geocode in Unicode scalar values: 256 in types.ts,
\* scaled here to the query lengths of this model.
MAX_GEOCODE_INPUT_LEN == 16

\* types.ts: the sizes validateCache asks of the corpus.
MIN_CITY_COUNT == 140000
MIN_COUNTRY_COUNT == 200

\* US_STATE_CODES, in the order of the table: the entries the queries of this
\* model can meet.
US_STATE_CODES == <<
    [code |-> "CA", name |-> "California"],
    [code |-> "DE", name |-> "Delaware"],
    [code |-> "IN", name |-> "Indiana"],
    [code |-> "MA", name |-> "Massachusetts"],
    [code |-> "NY", name |-> "New York"],
    [code |-> "TX", name |-> "Texas"] >>

DataDirs == {"d1"}
CacheDirs == {"c1", "c2"}

\* The three files downloadDataSets fetches into a data dir, in its order.
DataFileNames == <<"cities1000.zip", "countryInfo.txt", "admin1CodesASCII.txt">>

\* JS numbers: a finite value (an integer of the model), NaN, or an infinity.
Num(v) == [kind |-> "num", v |-> v]
NaN == [kind |-> "nan", v |-> 0]
PosInfinity == [kind |-> "inf", v |-> 1]
NegInfinity == [kind |-> "inf", v |-> -1]
isFinite(x) == x.kind = "num"
isNaN(x) == x.kind = "nan"

Row(name, alt, lat, lng, cc, admin1, pop) ==
    [name |-> name, alt |-> alt, lat |-> lat, lng |-> Num(lng),
     country |-> cc, admin1 |-> admin1, population |-> pop]

\* The lines of cities1000 (name, alt-name blob, latitude, longitude,
\* country, admin1 code, population), in file order.  Every place lies on the
\* great circle formed by the meridians 0 and 180.  A latitude field that is
\* not a number parses to NaN.
GeonamesRows == <<
    Row("Paris",    "Paname,Lutece",   Num(4885),  0, "FR", "IDF", 2138551),
    Row("Mumbai",   "Bombay, Bombaim", Num(1907),  0, "IN", "MH",  12691836),
    Row("Vasai",    "bombay",          Num(1950),  0, "IN", "MH",  40000),
    Row("Berlin",   "Berlino",         Num(5252),  0, "DE", "BER", 3426354),
    Row("Mitte",    "",                Num(5253),  0, "DE", "BER", 79582),
    Row("",         "Nameless",        Num(5254),  0, "DE", "BER", 900000),
    Row("Paris",    "",                Num(3366),  0, "US", "TX",  24171),
    Row("Austin",   "",                Num(3027),  0, "US", "TX",  961855),
    Row("Boston",   "",                Num(5298),  0, "GB", "ENG", 35124),
    Row("Boston",   "Beantown",        Num(4236),  0, "US", "MA",  653833),
    Row("New York", "NYC,Big Apple",   Num(4071),  0, "US", "NY",  8175133),
    Row("Orléans",  "Orleans",         Num(4790),  0, "FR", "CVL", 116238),
    Row("Ghost",    "",                NaN,        0, "FR", "IDF", 5),
    Row("Hamlet",   "",                Num(1000),  0, "IN", "MH",  100),
    Row("Tenfold",  "",                Num(1003),  0, "IN", "MH",  1000),
    Row("Market",   "",                Num(1006),  0, "IN", "MH",  1001),
    Row("Croft",    "",                Num(2000),  0, "IN", "GJ",  100),
    Row("Tenby",    "",                Num(2003),  0, "IN", "GJ",  1000),
    Row("Lonely",   "",                Num(3500),  0, "US", "",    0),
    Row("Nord",     "",                Num(8995),  0, "GL", "",    20),
    Row("Taveuni",  "",                Num(-1680), 18000, "FJ", "N", 9000),
    Row("Oldtown",  "",                Num(600),   0, "FR", "NAQ", 300),
    Row("Newtown",  "",                Num(600),   0, "FR", "NAQ", 400),
    Row("Delhi",    "",                Num(2900),  0, "IN", "UP",  5000),
    Row("Delhi",    "Dilli",           Num(2865),  0, "IN", "DL",  10927986),
    Row("Kirk",     "",                Num(-3000), 0, "GL", "",    500),
    Row("Kirk",     "",                Num(-3100), 0, "IN", "MH",  90000),
    Row("Zero",     "",                Num(-4000), 0, "FR", "NAQ", 0),
    Row("Zero",     "",                Num(-4100), 0, "IN", "MH",  0),
    Row("Juba",     "",                Num(485),   0, "SS", "17",  300000),
    Row("Téxas",    "Texas",           Num(-5000), 0, "US", "TX",  50) >>

\* The lines of countryInfo.txt: ISO-2 code and country name.
CountryRows == <<
    [iso |-> "DE", country |-> "Germany"],
    [iso |-> "FR", country |-> "France"],
    [iso |-> "GB", country |-> "United Kingdom"],
    [iso |-> "GN", country |-> "Guinea"],
    [iso |-> "GW", country |-> "Guinea-Bissau"],
    [iso |-> "IN", country |-> "India"],
    [iso |-> "SD", country |-> "Sudan"],
    [iso |-> "SS", country |-> "South Sudan"],
    [iso |-> "US", country |-> "United States"] >>

\* The keys of admin1CodesASCII.txt, "<ISO2>.<CODE>".
AdminRows == <<
    <<"GB", "ENG">>, <<"US", "TX">>, <<"CH", "BE">>, <<"BJ", "BE">>, <<"IN", "MH">> >>

-----------------------------------------------------------------------------
(* string-interner.ts                                                      *)

\* `new StringInterner()`: lookup = [''] (id 0 is the empty string).
NewInterner == <<"">>

\* StringInterner.intern(s) on the table `lookup`: the table afterwards.
InternTable(lookup, s) ==
    IF \E i \in 1..Len(lookup) : lookup[i] = s THEN lookup ELSE Append(lookup, s)

\* StringInterner.intern(s): the id, given the table after the call.
InternId(lookup, s) == (CHOOSE i \in 1..Len(lookup) : lookup[i] = s) - 1

\* StringInterner.get(idx)
InternerGet(lookup, idx) ==
    IF idx >= 0 /\ idx < Len(lookup) THEN lookup[idx + 1] ELSE ""

\* The class with both of its fields: `lookup = ['']` and
\* `index = new Map([['', 0]])`, the map as a function on its keys.
StringInterner == [lookup |-> <<"">>, index |-> [s \in {""} |-> 0]]

\* An intern that skips the map and appends at every call.
internAppending(t, s) ==
    [id |-> Len(t.lookup),
     t |-> [lookup |-> Append(t.lookup, s),
            index |-> [k \in DOMAIN t.index \cup {s} |-> IF k = s THEN Len(t.lookup)
                                                          ELSE t.index[k]]]]

\* intern(s) on the object t: the id returned and the object afterwards.
intern(t, s) ==
    IF s \in DOMAIN t.index
    THEN [id |-> t.index[s], t |-> t]
    ELSE [id |-> Len(t.lookup),
          t |-> [lookup |-> Append(t.lookup, s),
                 index |-> [k \in DOMAIN t.index \cup {s} |-> IF k = s THEN Len(t.lookup)
                                                               ELSE t.index[k]]]]

\* get(idx) on the object t
get(t, idx) == IF idx >= 0 /\ idx < Len(t.lookup) THEN t.lookup[idx + 1] ELSE ""

\* count() on the object t
count(t) == Len(t.lookup)

-----------------------------------------------------------------------------
(* data-loader.ts, name-index.ts, cache.ts                                  *)

EmptyCity ==
    [city |-> "", cityAlt |-> "", countryIdx |-> 0, regionIdx |-> 0,
     latitude |-> 0, longitude |-> 0, population |-> 0]

\* A loader that keeps the lines whose name is blank.
RowAcceptedUnnamed(r) == ~isNaN(r.lat) /\ ~isNaN(r.lng)

\* A line of cities1000 yields a record unless a coordinate does not parse
\* or the trimmed name is empty.
RowAccepted(r) ==
    /\ ~isNaN(r.lat) /\ ~isNaN(r.lng)
    /\ Len(Trim(r.name)) > 0

\* loadGeonamesCities: the records of the accepted lines, the country and
\* region codes interned as the lines are read.  `acc` carries the cities
\* read so far and the two interner tables.  The lines are read first to
\* last: those of the first half of `rows`, then those of the second half.
RECURSIVE loadGeonamesCities(_, _)
loadGeonamesCities(rows, acc) ==
    IF rows = <<>> THEN acc
    ELSE IF Len(rows) = 1
    THEN LET r == rows[1]
             Read(cl, rl) ==
                 [cities |-> Append(acc.cities,
                                [city |-> Trim(r.name), cityAlt |-> r.alt,
                                 countryIdx |-> InternId(cl, r.country),
                                 regionIdx |-> InternId(rl, r.admin1),
                                 latitude |-> r.lat.v, longitude |-> r.lng.v,
                                 population |-> r.population]),
                  countryLookup |-> cl, regionLookup |-> rl]
         IN IF ~RowAccepted(r) THEN acc
            ELSE Read(InternTable(acc.countryLookup, r.country),
                      InternTable(acc.regionLookup, r.admin1))
    ELSE LET Continue(acc2) ==
                 Strict(acc2, loadGeonamesCities(SubSeq(rows, Len(rows) \div 2 + 1, Len(rows)),
                                                 acc2))
         IN Continue(loadGeonamesCities(SubSeq(rows, 1, Len(rows) \div 2), acc))

\* loadGeonamesCountryInfo: a row is dropped if its ISO-2 field is "" or "0".
loadGeonamesCountryInfo(rows) ==
    SelectSeq(rows, LAMBDA r : r.iso # "" /\ r.iso # "0")

\* An order that puts the shortest country name first.
ByNameLengthAscending(a, b) == Len(a.country) - Len(b.country)

\* (a, b) => b.country.length - a.country.length
ByNameLength(a, b) == Len(b.country) - Len(a.country)

\* The comparators passed to Array.prototype.sort:
\*   "cities"     (a, b) => compareCaseInsensitive(a.city, b.city)
\*   "countries"  (a, b) => b.country.length - a.country.length
\*   "candidates" (a, b) => a.dist - b.dist || b.city.population - a.city.population
Comparator(kind, a, b) ==
    CASE kind = "cities" -> compareCaseInsensitive(a.city, b.city)
      [] kind = "countries" -> ByNameLength(a, b)
      [] kind = "candidates" ->
            IF a.dist - b.dist # 0 THEN a.dist - b.dist
            ELSE b.city.population - a.city.population

\* Array.prototype.sort: stable (an element goes before the first element it
\* is smaller than, after the elements it is equal to).
InsertSorted(sorted, x, kind) ==
    LET Before(smaller) ==
            IF smaller = {} THEN Len(sorted) + 1
            ELSE CHOOSE j \in smaller : \A i \in smaller : j <= i
        At(p) == SubSeq(sorted, 1, p - 1) \o <<x>> \o SubSeq(sorted, p, Len(sorted))
    IN At(Before({ j \in 1..Len(sorted) : Comparator(kind, x, sorted[j]) < 0 }))
\* The elements lo..hi of xs inserted, in that order, into `sorted`.
RECURSIVE InsertAll(_, _, _, _, _)
InsertAll(sorted, xs, lo, hi, kind) ==
    IF lo > hi THEN sorted
    ELSE IF lo = hi THEN InsertSorted(sorted, xs[lo], kind)
    ELSE LET Continue(sorted2) ==
                 Strict(sorted2, InsertAll(sorted2, xs, (lo + hi) \div 2 + 1, hi, kind))
         IN Continue(InsertAll(sorted, xs, lo, (lo + hi) \div 2, kind))
SortBy(xs, kind) ==
    LET Sorted(forced) == InsertAll(<<>>, forced, 1, Len(forced), kind)
    IN Strict(xs, Sorted(xs))

\* Map.get on a map kept as the sequence of its entries in insertion order;
\* <<>> stands for undefined.
MapGet(m, key) ==
    IF \E e \in 1..Len(m) : m[e].key = key
    THEN m[CHOOSE e \in 1..Len(m) : m[e].key = key].val
    ELSE <<>>

\* existing.push(i), or set(key, [i]) for a new key.
MapPush(m, key, i) ==
    IF \E e \in 1..Len(m) : m[e].key = key
    THEN [m EXCEPT ![CHOOSE e \in 1..Len(m) : m[e].key = key].val = Append(@, i)]
    ELSE Append(m, [key |-> key, val |-> <<i>>])

\* An index whose alias keys are the segments as they stand between commas.
NameKeysUntrimmed(city) ==
    LET primary == IF Len(city.city) > 0 THEN <<toLower(city.city)>> ELSE <<>>
        Lowered(kept) == [k \in 1..Len(kept) |-> toLower(kept[k])]
        Kept(alts) == SelectSeq(alts, LAMBDA a : Len(Trim(a)) # 0)
    IN primary \o Lowered(Kept(IF Len(city.cityAlt) > 0
                               THEN Split(city.cityAlt, ",") ELSE <<>>))

\* The index keys city i contributes: its lowercased name, then each
\* trimmed, non-empty, lowercased segment of its alt blob split on ','.
NameKeys(city) ==
    LET primary == IF Len(city.city) > 0 THEN <<toLower(city.city)>> ELSE <<>>
        Lowered(kept) == [k \in 1..Len(kept) |-> toLower(kept[k])]
        Kept(alts) == SelectSeq([k \in 1..Len(alts) |-> Trim(alts[k])],
                                LAMBDA a : Len(a) # 0)
    IN primary \o Lowered(Kept(IF Len(city.cityAlt) > 0
                               THEN Split(city.cityAlt, ",") ELSE <<>>))

RECURSIVE PushKeys(_, _, _)
PushKeys(m, keys, i) ==
    IF keys = <<>> THEN m ELSE PushKeys(MapPush(m, Head(keys), i), Tail(keys), i)

\* buildNameIndex(cities): city indices are 0-based, as in the code.
\* The turns lo..hi of the loop, i from lo up to hi.
RECURSIVE buildNameIndexFrom(_, _, _, _)
buildNameIndexFrom(cities, lo, hi, m) ==
    IF lo > hi THEN m
    ELSE IF lo = hi THEN PushKeys(m, NameKeys(cities[lo + 1]), lo)
    ELSE LET Continue(m2) ==
                 Strict(m2, buildNameIndexFrom(cities, (lo + hi) \div 2 + 1, hi, m2))
         IN Continue(buildNameIndexFrom(cities, lo, (lo + hi) \div 2, m))
buildNameIndex(cities) == buildNameIndexFrom(cities, 0, Len(cities) - 1, <<>>)

-----------------------------------------------------------------------------
(* s2-geometry.ts.  The places and query points of the model lie on one    *)
(* great circle (the meridians 0 and 180), where the haversine distance is *)
(* a difference of latitudes; the cell decomposition is a band of square   *)
(* cells along that circle, CellSpan hundredths of a degree wide.          *)

CellSpan == 50

\* toRadians: degrees * PI / 180, from hundredths of a degree to 1e-7 rad.
toRadians(degrees) ==
    LET a == Abs(degrees)
        r == (a \div 1000) * 1745329 + ((a % 1000) * 1745329) \div 1000
    IN IF degrees < 0 THEN -r ELSE r

PI == toRadians(18000)

latLngFromDegrees(latDeg, lngDeg) ==
    [latRadians |-> toRadians(latDeg), lngRadians |-> toRadians(lngDeg)]

\* angularDistance: 2 asin(sqrt(min(1, h))) for two points of the great
\* circle: on one meridian h = sin^2(dlat/2), on opposite meridians
\* h = cos^2((lat_a + lat_b)/2).
angularDistance(a, b) ==
    LET dlat == b.latRadians - a.latRadians
        dlng == b.lngRadians - a.lngRadians
    IN CASE dlng = 0 \/ Abs(dlng) = 2 * PI -> Abs(dlat)
         [] Abs(dlng) = PI -> PI - Abs(a.latRadians + b.latRadians)

\* The position of a point along the circle, in [0, 2 PI).
ArcPosition(ll) ==
    LET t == CASE ll.lngRadians = 0 -> ll.latRadians
               [] Abs(ll.lngRadians) = PI -> PI - ll.latRadians
    IN (t + 2 * PI) % (2 * PI)

NumCells == (2 * PI) \div toRadians(CellSpan) + 1

\* cellIDFromLatLng: the leaf cell of a point.
cellIDFromLatLng(ll) == [level |-> 30, i |-> ArcPosition(ll), j |-> 0]

\* cellIDParentAtLevel(leaf, level), for the level the facade uses.
cellIDParentAtLevel(cellId, level) ==
    [level |-> level, i |-> cellId.i \div toRadians(CellSpan), j |-> cellId.j]

\* cellIDEdgeNeighbors: the cells below, right of, above and left of the cell.
cellIDEdgeNeighbors(id) ==
    LET Around(cells) ==
            << [id EXCEPT !.j = id.j - 1],
               [id EXCEPT !.i = (id.i + 1) % cells],
               [id EXCEPT !.j = id.j + 1],
               [id EXCEPT !.i = (id.i + cells - 1) % cells] >>
    IN Around(NumCells)

-----------------------------------------------------------------------------
(* admin-divisions.ts                                                      *)

\* The table parsed from admin1CodesASCII.txt: a set of <<country, code>>.
ParsedDivisions == { AdminRows[k] : k \in 1..Len(AdminRows) }

\* loadAdminDivisionsForDir(dataDir): the cached table if there is one; else
\* the parsed file, or the empty table when the file cannot be read.
\* `cache` is adminDivisionsCache, `files` the files present in dataDir.
loadAdminDivisionsForDir(cache, files, dataDir) ==
    IF cache[dataDir].cached THEN cache[dataDir].divisions
    ELSE IF "admin1CodesASCII.txt" \in files[dataDir] THEN ParsedDivisions
    ELSE {}

\* adminDivisionsCache after loadAdminDivisionsForDir(dataDir): the table is
\* stored only when the file was read.
AdminCacheAfterLoad(cache, files, dataDir) ==
    IF cache[dataDir].cached THEN cache
    ELSE IF "admin1CodesASCII.txt" \in files[dataDir]
         THEN [cache EXCEPT ![dataDir] = [cached |-> TRUE, divisions |-> ParsedDivisions]]
    ELSE cache

isAdminDivision(divisions, countryCode, divisionCode) ==
    <<countryCode, toUpper(divisionCode)>> \in divisions

\* A lookup that settles for any country holding the code.
getAdminDivisionCountryAny(divisions, code) ==
    LET First(matches) ==
            IF matches # {} THEN CHOOSE c \in matches : TRUE ELSE ""
    IN First({ d[1] : d \in { e \in divisions : e[2] = toUpper(code) } })

getAdminDivisionCountry(divisions, code) ==
    LET Only(matches) ==
            IF Cardinality(matches) = 1 THEN CHOOSE c \in matches : TRUE ELSE ""
    IN Only({ d[1] : d \in { e \in divisions : e[2] = toUpper(code) } })

-----------------------------------------------------------------------------
(* geobed.ts: GeoBed.extractLocationPieces                                  *)

\* The five comparisons every pass makes between the lowercased query and a
\* lowercased qualifier q: equality, prefix "q, " or "q ", suffix ", q" or
\* " q".  `hit` tells whether one matched, `n` is the query afterwards.
StripAgainst(n, nLower, q) ==
    LET prefixWithComma == q \o ", "
        prefixWithSpace == q \o " "
        suffixWithComma == ", " \o q
        suffixWithSpace == " " \o q
    IN IF nLower = q THEN [hit |-> TRUE, n |-> ""]
       ELSE IF Len(nLower) > Len(prefixWithComma)
               /\ Substring(nLower, 0, Len(prefixWithComma)) = prefixWithComma
            THEN [hit |-> TRUE, n |-> Substring(n, Len(prefixWithComma), Len(n))]
       ELSE IF Len(nLower) > Len(prefixWithSpace)
               /\ Substring(nLower, 0, Len(prefixWithSpace)) = prefixWithSpace
            THEN [hit |-> TRUE, n |-> Substring(n, Len(prefixWithSpace), Len(n))]
       ELSE IF Len(nLower) > Len(suffixWithComma)
               /\ Substring(nLower, Len(nLower) - Len(suffixWithComma), Len(nLower))
                    = suffixWithComma
            THEN [hit |-> TRUE, n |-> Substring(n, 0, Len(n) - Len(suffixWithComma))]
       ELSE IF Len(nLower) > Len(suffixWithSpace)
               /\ Substring(nLower, Len(nLower) - Len(suffixWithSpace), Len(nLower))
                    = suffixWithSpace
            THEN [hit |-> TRUE, n |-> Substring(n, 0, Len(n) - Len(suffixWithSpace))]
       ELSE [hit |-> FALSE, n |-> n]

\* The comparisons made on the query as typed, without nLower.
StripQualifierCaseSensitive(n, q) == StripAgainst(n, n, q)

\* `const nLower = n.toLowerCase()` before the comparisons of a pass.
StripQualifier(n, q) == StripAgainst(n, toLower(n), q)

\* The loop over this.countriesByNameLength: the first country whose name
\* matches sets countryISO and is removed from the query.
RECURSIVE CountryPass(_, _)
CountryPass(n, countries) ==
    IF countries = <<>> THEN [countryISO |-> "", n |-> n]
    ELSE LET co == Head(countries)
             Matched(m) == IF m.hit THEN [countryISO |-> co.iso, n |-> m.n]
                           ELSE CountryPass(n, Tail(countries))
         IN Matched(StripQualifier(n, toLower(co.country)))

\* A loop over the state codes that sets countryISO to 'US' on every match.
RECURSIVE StateCodePassDefaulting(_, _, _)
StateCodePassDefaulting(n, countryISO, states) ==
    IF states = <<>> THEN [stateCode |-> "", countryISO |-> countryISO, n |-> n]
    ELSE LET sc == Head(states).code
             Matched(m) ==
                 IF m.hit
                 THEN [stateCode |-> sc, countryISO |-> "US", n |-> m.n]
                 ELSE StateCodePassDefaulting(n, countryISO, Tail(states))
         IN Matched(StripQualifier(n, toLower(sc)))

\* The loop over Object.keys(US_STATE_CODES).
RECURSIVE StateCodePass(_, _, _)
StateCodePass(n, countryISO, states) ==
    IF states = <<>> THEN [stateCode |-> "", countryISO |-> countryISO, n |-> n]
    ELSE LET sc == Head(states).code
             Matched(m) ==
                 IF m.hit
                 THEN [stateCode |-> sc,
                       countryISO |-> IF countryISO = "" THEN "US" ELSE countryISO,
                       n |-> m.n]
                 ELSE StateCodePass(n, countryISO, Tail(states))
         IN Matched(StripQualifier(n, toLower(sc)))

\* The loop over Object.entries(US_STATE_CODES), entered when no code matched.
RECURSIVE StateNamePass(_, _, _)
StateNamePass(n, countryISO, states) ==
    IF states = <<>> THEN [stateCode |-> "", countryISO |-> countryISO, n |-> n]
    ELSE LET Matched(m) ==
                 IF m.hit
                 THEN [stateCode |-> Head(states).code,
                       countryISO |-> IF countryISO = "" THEN "US" ELSE countryISO,
                       n |-> m.n]
                 ELSE StateNamePass(n, countryISO, Tail(states))
         IN Matched(StripQualifier(n, toLower(Head(states).name)))

\* Whether the international pass reads the admin-division table for the
\* residual n (it calls isAdminDivision or getAdminDivisionCountry).
AdminPassReads(n) ==
    LET Short(lastPart) == Len(lastPart) >= 2 /\ Len(lastPart) <= 3
        OnParts(parts) == Len(parts) >= 2 /\ Short(StripCommaSpace(parts[Len(parts)]))
    IN OnParts(Split(n, " "))

\* The international admin-division pass, entered when stateCode is ''.
AdminPass(n, countryISO, divisions) ==
    LET unchanged == [stateCode |-> "", countryISO |-> countryISO, n |-> n]
        Found(country, lastPartUpper, rest) ==
            IF country # ""
            THEN [stateCode |-> lastPartUpper, countryISO |-> country, n |-> rest]
            ELSE unchanged
        Resolve(lastPartUpper, rest) ==
            IF countryISO # "" /\ isAdminDivision(divisions, countryISO, lastPartUpper)
            THEN [stateCode |-> lastPartUpper, countryISO |-> countryISO, n |-> rest]
            ELSE IF countryISO = ""
            THEN Found(getAdminDivisionCountry(divisions, lastPartUpper), lastPartUpper, rest)
            ELSE unchanged
        OnParts(parts) ==
            Resolve(toUpper(StripCommaSpace(parts[Len(parts)])),
                    Join(SubSeq(parts, 1, Len(parts) - 1)))
    IN IF ~AdminPassReads(n) THEN unchanged ELSE OnParts(Split(n, " "))

\* extractLocationPieces(n) on facade g; `divisions` is what
\* loadAdminDivisionsForDir(g.config.dataDir) returns at the time of the call.
\* adminRead tells whether the call read that table.
extractLocationPieces(g, divisions, n) ==
    LET Pieces(p3, p4) ==
            [countryISO |-> p4.countryISO,
             stateCode |-> p4.stateCode,
             abbrevSlice |-> AbbrevMatches(n),
             nameSlice |-> Split(StripCommaSpace(p4.n), " "),
             adminRead |-> (p3.stateCode = "" /\ AdminPassReads(p3.n))]
        AfterStateName(p3) ==
            Pieces(p3, IF p3.stateCode = ""
                       THEN AdminPass(p3.n, p3.countryISO, divisions)
                       ELSE p3)
        AfterStateCode(p2) ==
            AfterStateName(IF p2.stateCode = ""
                           THEN StateNamePass(p2.n, p2.countryISO, US_STATE_CODES)
                           ELSE p2)
        AfterCountry(p1) ==
            AfterStateCode(StateCodePass(p1.n, p1.countryISO, US_STATE_CODES))
    IN AfterCountry(CountryPass(n, g.countriesByNameLength))

-----------------------------------------------------------------------------
(* geobed.ts: candidate gathering and GeoBed.fuzzyMatchLocation             *)

CityAt(g, i) == g.cities[i + 1]

\* GeoBed.cityCountry / GeoBed.cityRegion: through the process-wide interners.
cityCountry(tables, city) == InternerGet(tables.countryLookup, city.countryIdx)
cityRegion(tables, city) == InternerGet(tables.regionLookup, city.regionIdx)

\* `for (const idx of indices) candidateSet.add(idx)`: a Set keeps its
\* elements in insertion order.
RECURSIVE AddAll(_, _)
AddAll(set, indices) ==
    IF indices = <<>> THEN set
    ELSE AddAll(IF \E k \in 1..Len(set) : set[k] = Head(indices)
                THEN set ELSE Append(set, Head(indices)),
                Tail(indices))

RECURSIVE AddTokenLookups(_, _, _)
AddTokenLookups(set, nameIndex, nSlice) ==
    IF nSlice = <<>> THEN set
    ELSE LET Add(trimmed) ==
                 AddTokenLookups(
                     IF Len(trimmed) = 0 THEN set ELSE AddAll(set, MapGet(nameIndex, trimmed)),
                     nameIndex, Tail(nSlice))
         IN Add(toLower(StripTrailingComma(Head(nSlice))))

\* The scan of every index key against the query terms (fuzzyDistance > 0).
RECURSIVE AddFuzzyLookups(_, _, _, _)
AddFuzzyLookups(set, entries, queryTerms, fuzzyDistance) ==
    IF entries = <<>> THEN set
    ELSE LET e == Head(entries)
             hit == \E t \in 1..Len(queryTerms) : fuzzyMatch(queryTerms[t], e.key, fuzzyDistance)
             Continue(set2) ==
                 Strict(set2, AddFuzzyLookups(set2, Tail(entries), queryTerms, fuzzyDistance))
         IN Continue(IF hit THEN AddAll(set, e.val) ELSE set)

QueryTerms(nSlice) ==
    SelectSeq([k \in 1..Len(nSlice) |-> StripTrailingComma(nSlice[k])],
              LAMBDA t : Len(t) > 2)

\* The candidate set of fuzzyMatchLocation.
GatherCandidates(g, n, nSlice, fuzzyDistance) ==
    LET Fuzzy(s3, queryTerms) ==
            IF fuzzyDistance > 0 /\ Len(queryTerms) > 0
            THEN AddFuzzyLookups(s3, g.nameIndex, queryTerms, fuzzyDistance)
            ELSE s3
        Joined(nLower, joinedSlice, s1) ==
            Fuzzy(AddTokenLookups(IF joinedSlice # nLower
                                  THEN AddAll(s1, MapGet(g.nameIndex, joinedSlice))
                                  ELSE s1,
                                  g.nameIndex, nSlice),
                  QueryTerms(nSlice))
        Full(nLower) ==
            Joined(nLower, toLower(Join(nSlice)), AddAll(<<>>, MapGet(g.nameIndex, nLower)))
    IN Full(toLower(n))

\* The "City, ST" fast path test of one candidate.
FastPathHit(tables, v, nLower, nSt) ==
    /\ nSt # ""
    /\ nLower = toLower(v.city)
    /\ toLower(nSt) = toLower(cityRegion(tables, v))

RECURSIVE AbbrevScore(_, _, _)
AbbrevScore(abbrevSlice, vRegion, vCountry) ==
    IF abbrevSlice = <<>> THEN 0
    ELSE LET av == Head(abbrevSlice)
             Bonus(lowerAv) ==
                   (IF Len(av) = 2 /\ toLower(vRegion) = lowerAv THEN 5 ELSE 0)
                 + (IF Len(av) = 2 /\ toLower(vCountry) = lowerAv THEN 3 ELSE 0)
         IN Bonus(toLower(av)) + AbbrevScore(Tail(abbrevSlice), vRegion, vCountry)

AltScore(v, n, nLower) ==
    IF v.cityAlt = "" THEN 0
    ELSE LET Bonus(kept) ==
                   (IF \E k \in 1..Len(kept) : toLower(kept[k]) = nLower THEN 3 ELSE 0)
                 + (IF \E k \in 1..Len(kept) : kept[k] = n THEN 5 ELSE 0)
             Kept(alts) == SelectSeq([k \in 1..Len(alts) |-> Trim(alts[k])],
                                     LAMBDA a : Len(a) # 0)
         IN Bonus(Kept(Split(v.cityAlt, ",")))

RECURSIVE FuzzyTokenScore(_, _, _)
FuzzyTokenScore(nSlice, city, fuzzyDistance) ==
    IF nSlice = <<>> THEN 0
    ELSE LET trimmed == StripTrailingComma(Head(nSlice))
         IN (IF Len(trimmed) > 2 /\ fuzzyMatch(trimmed, city, fuzzyDistance) THEN 5 ELSE 0)
          + FuzzyTokenScore(Tail(nSlice), city, fuzzyDistance)

\* A name bonus whose fuzzy part does not depend on the exact part.
NameScoreBoth(v, nLower, nSlice, fuzzyDistance) ==
    LET Bonus(cityLower) ==
              (IF nLower = cityLower \/ nLower = stripDiacritics(cityLower) THEN 7 ELSE 0)
            + (IF fuzzyDistance > 0 THEN FuzzyTokenScore(nSlice, v.city, fuzzyDistance)
               ELSE 0)
    IN Bonus(toLower(v.city))

\* `if (nLower === ...) score += 7; else if (opts.fuzzyDistance > 0) ...`
NameScore(v, nLower, nSlice, fuzzyDistance) ==
    LET Bonus(cityLower) ==
            IF nLower = cityLower \/ nLower = stripDiacritics(cityLower) THEN 7
            ELSE IF fuzzyDistance > 0 THEN FuzzyTokenScore(nSlice, v.city, fuzzyDistance)
            ELSE 0
    IN Bonus(toLower(v.city))

RECURSIVE TokenScore(_, _)
TokenScore(nSlice, city) ==
    IF nSlice = <<>> THEN 0
    ELSE LET Bonus(cityLower, trimmedLower, cityPlain) ==
                   (IF Includes(cityLower, trimmedLower) \/ Includes(cityPlain, trimmedLower)
                    THEN 2 ELSE 0)
                 + (IF cityLower = trimmedLower \/ cityPlain = trimmedLower
                    THEN 1 ELSE 0)
             Lowered(cityLower) ==
                 Bonus(cityLower, toLower(StripTrailingComma(Head(nSlice))),
                       stripDiacritics(cityLower))
         IN Lowered(toLower(city)) + TokenScore(Tail(nSlice), city)

\* The score of candidate v before the population bonuses.
Score(tables, v, n, pieces, fuzzyDistance) ==
    LET Sum(vCountry, vRegion, nLower) ==
              AbbrevScore(pieces.abbrevSlice, vRegion, vCountry)
            + (IF pieces.countryISO # "" /\ pieces.countryISO = vCountry THEN 4 ELSE 0)
            + (IF pieces.stateCode # "" /\ pieces.stateCode = vRegion THEN 4 ELSE 0)
            + AltScore(v, n, nLower)
            + NameScore(v, nLower, pieces.nameSlice, fuzzyDistance)
            + TokenScore(pieces.nameSlice, v.city)
    IN Sum(cityCountry(tables, v), cityRegion(tables, v), toLower(n))

\* bestMatchingKeys after the scoring loop: the candidates with a positive
\* score, in candidate order, as entries [key, val].
RECURSIVE ScoreAll(_, _, _, _, _, _)
ScoreAll(g, tables, cands, n, pieces, fuzzyDistance) ==
    IF cands = <<>> THEN <<>>
    ELSE LET i == Head(cands)
             Entry(score, rest) ==
                 IF score > 0 THEN <<[key |-> i, val |-> score]>> \o rest ELSE rest
         IN Entry(Score(tables, CityAt(g, i), n, pieces, fuzzyDistance),
                  ScoreAll(g, tables, Tail(cands), n, pieces, fuzzyDistance))

ScoreOf(keys, k) ==
    IF \E e \in 1..Len(keys) : keys[e].key = k
    THEN keys[CHOOSE e \in 1..Len(keys) : keys[e].key = k].val
    ELSE 0

\* bestMatchingKeys.set(k, val)
ScoreSet(keys, k, val) ==
    IF \E e \in 1..Len(keys) : keys[e].key = k
    THEN [keys EXCEPT ![CHOOSE e \in 1..Len(keys) : keys[e].key = k].val = val]
    ELSE Append(keys, [key |-> k, val |-> val])

\* The loop of the population bonus: +1 for a population of at least 1000,
\* and the key hpk of the highest population seen (0 when none is positive).
RECURSIVE PopulationLoop(_, _, _, _, _)
PopulationLoop(g, keys, e, hp, hpk) ==
    IF e > Len(keys) THEN [keys |-> keys, hpk |-> hpk]
    ELSE LET k == keys[e].key
             pop == CityAt(g, k).population
             Continue(bumped) ==
                 IF pop > hp THEN PopulationLoop(g, bumped, e + 1, pop, k)
                 ELSE PopulationLoop(g, bumped, e + 1, hp, hpk)
         IN Continue(IF pop >= 1000 THEN ScoreSet(keys, k, keys[e].val + 1) ELSE keys)

\* A population block whose bonus for the largest place outweighs the rules.
PopulationBonusOutweighing(g, keys) ==
    LET Largest(r) ==
            IF r.hpk < Len(g.cities) /\ CityAt(g, r.hpk).population > 0
            THEN ScoreSet(r.keys, r.hpk, ScoreOf(r.keys, r.hpk) + 100)
            ELSE r.keys
    IN Largest(PopulationLoop(g, keys, 1, 0, 0))

\* The `if (nCo === '')` block.
PopulationBonus(g, keys) ==
    LET Largest(r) ==
            IF r.hpk < Len(g.cities) /\ CityAt(g, r.hpk).population > 0
            THEN ScoreSet(r.keys, r.hpk, ScoreOf(r.keys, r.hpk) + 1)
            ELSE r.keys
    IN Largest(PopulationLoop(g, keys, 1, 0, 0))

\* A selection that keeps the first key of the maximum and never looks at the
\* populations.
RECURSIVE SelectBestFirstMax(_, _, _, _, _)
SelectBestFirstMax(g, keys, e, m, bestMatchingKey) ==
    IF e > Len(keys) THEN bestMatchingKey
    ELSE IF keys[e].val > m
         THEN SelectBestFirstMax(g, keys, e + 1, keys[e].val, keys[e].key)
         ELSE SelectBestFirstMax(g, keys, e + 1, m, bestMatchingKey)

\* The selection loop: the running maximum m and its key.
RECURSIVE SelectBest(_, _, _, _, _)
SelectBest(g, keys, e, m, bestMatchingKey) ==
    IF e > Len(keys) THEN bestMatchingKey
    ELSE LET k == keys[e].key
             v == keys[e].val
             m1 == IF v > m THEN v ELSE m
             b1 == IF v > m THEN k ELSE bestMatchingKey
             b2 == IF v = m1 /\ b1 >= 0
                      /\ CityAt(g, k).population > CityAt(g, b1).population
                   THEN k ELSE b1
         IN SelectBest(g, keys, e + 1, m1, b2)

\* fuzzyMatchLocation(n, opts): the record returned, with the values the
\* call computed on the way (idx is the corpus index returned, -1 for none).
fuzzyMatchLocation(g, tables, divisions, n, opts) ==
    LET Selected(base, final, bestMatchingKey) ==
            IF bestMatchingKey >= 0 /\ bestMatchingKey < Len(g.cities)
            THEN [base EXCEPT !.scores = final]
                 @@ [path |-> "scored", idx |-> bestMatchingKey,
                     result |-> CityAt(g, bestMatchingKey)]
            ELSE [base EXCEPT !.scores = final]
                 @@ [path |-> "scored", idx |-> -1, result |-> EmptyCity]
        Final(base, final) == Selected(base, final, SelectBest(g, final, 1, 0, -1))
        Scored(base, pieces, scored) ==
            IF scored = <<>>
            THEN base @@ [path |-> "no-score", idx |-> -1, result |-> EmptyCity]
            ELSE Final([base EXCEPT !.scored = scored],
                       IF pieces.countryISO = ""
                       THEN PopulationBonus(g, scored) ELSE scored)
        Matched(base, pieces, cands, fast) ==
            IF cands = <<>>
            THEN base @@ [path |-> "no-candidate", idx |-> -1, result |-> EmptyCity]
            ELSE IF fast # <<>>
            THEN base @@ [path |-> "fast", idx |-> fast[1], result |-> CityAt(g, fast[1])]
            ELSE Scored(base, pieces,
                        ScoreAll(g, tables, cands, n, pieces, opts.fuzzyDistance))
        Gathered(pieces, cands, nLower) ==
            Matched([pieces |-> pieces, candidates |-> cands, scored |-> <<>>,
                     scores |-> <<>>],
                    pieces, cands,
                    SelectSeq(cands, LAMBDA i :
                        FastPathHit(tables, CityAt(g, i), nLower, pieces.stateCode)))
        Extracted(pieces) ==
            Gathered(pieces, GatherCandidates(g, n, pieces.nameSlice, opts.fuzzyDistance),
                     toLower(n))
    IN Extracted(extractLocationPieces(g, divisions, n))

-----------------------------------------------------------------------------
(* geobed.ts: GeoBed.exactMatchCity and GeoBed.geocode                      *)

\* The record at corpus index i, the empty record for i = -1.
CityOrEmpty(g, i) == IF i < 0 THEN EmptyCity ELSE CityAt(g, i)

\* `for (const city of cities) if (<first> || city.population > cur.population)
\* cur = city`, where <first> is `cur.city === ''` when takeFirst holds and
\* false otherwise.  cur and the result are corpus indices, -1 for the empty
\* record.
RECURSIVE PopulationFold(_, _, _, _)
PopulationFold(g, idxs, cur, takeFirst) ==
    IF idxs = <<>> THEN cur
    ELSE LET Take(city, current) ==
                 \/ (takeFirst /\ current.city = "")
                 \/ city.population > current.population
         IN PopulationFold(g, Tail(idxs),
                           IF Take(CityAt(g, Head(idxs)), CityOrEmpty(g, cur))
                           THEN Head(idxs) ELSE cur,
                           takeFirst)

RECURSIVE TokenLookups(_)
TokenLookups(nSlice) ==
    IF nSlice = <<>> THEN <<>>
    ELSE LET Key(trimmed) == IF Len(trimmed) > 0 THEN <<toLower(trimmed)>> ELSE <<>>
         IN Key(StripTrailingComma(Head(nSlice))) \o TokenLookups(Tail(nSlice))

RECURSIVE LookupAll(_, _, _)
LookupAll(set, nameIndex, lookups) ==
    IF lookups = <<>> THEN set
    ELSE LookupAll(AddAll(set, MapGet(nameIndex, Head(lookups))), nameIndex, Tail(lookups))

exactMatchCity(g, tables, divisions, n) ==
    LET regionMatch(nSt, i) == toLower(nSt) = toLower(cityRegion(tables, CityAt(g, i)))
        countryMatch(nCo, i) == toLower(nCo) = toLower(cityCountry(tables, CityAt(g, i)))
        Result(pieces, cands, matchingCities, idx) ==
            [pieces |-> pieces, candidates |-> cands, matching |-> matchingCities,
             scores |-> <<>>, path |-> "exact", idx |-> idx, result |-> CityOrEmpty(g, idx)]
        Largest(matchingCities, r3) ==
            IF CityOrEmpty(g, r3).city = ""
            THEN PopulationFold(g, matchingCities, -1, FALSE)
            ELSE r3
        ByCountry(nCo, matchingCities, r2) ==
            Largest(matchingCities,
                    IF CityOrEmpty(g, r2).city = ""
                    THEN PopulationFold(g, SelectSeq(matchingCities,
                                                     LAMBDA i : countryMatch(nCo, i)),
                                        -1, FALSE)
                    ELSE r2)
        ByRegion(nCo, nSt, matchingCities, bestRegionAndCountry) ==
            ByCountry(nCo, matchingCities,
                      IF CityOrEmpty(g, bestRegionAndCountry).city # ""
                      THEN bestRegionAndCountry
                      ELSE PopulationFold(g, SelectSeq(matchingCities,
                                                       LAMBDA i : regionMatch(nSt, i)),
                                          -1, TRUE))
        Pick(nCo, nSt, matchingCities) ==
            IF Len(matchingCities) = 1 THEN matchingCities[1]
            ELSE IF Len(matchingCities) > 1
            THEN ByRegion(nCo, nSt, matchingCities,
                          PopulationFold(g, SelectSeq(matchingCities,
                                            LAMBDA i : regionMatch(nSt, i) /\ countryMatch(nCo, i)),
                                         -1, TRUE))
            ELSE -1
        Matching(pieces, cands, matchingCities) ==
            Result(pieces, cands, matchingCities,
                   Pick(pieces.countryISO, pieces.stateCode, matchingCities))
        Looked(pieces, nLower, joinedLower, cands) ==
            Matching(pieces, cands,
                     SelectSeq(cands, LAMBDA i :
                         \/ nLower = toLower(CityAt(g, i).city)
                         \/ joinedLower = toLower(CityAt(g, i).city)))
        Keyed(pieces, nLower, joinedLower) ==
            Looked(pieces, nLower, joinedLower,
                   LookupAll(<<>>, g.nameIndex,
                             <<nLower, joinedLower>> \o TokenLookups(pieces.nameSlice)))
        Extracted(pieces) == Keyed(pieces, toLower(n), toLower(Join(pieces.nameSlice)))
    IN Extracted(extractLocationPieces(g, divisions, n))

\* A normalisation that never cuts the query.
NormalizeQueryUncut(n) == Trim(CollapseWhitespace(n))

\* n.replace(/\s+/g, ' ').trim(), then the cut to MAX_GEOCODE_INPUT_LEN runes.
NormalizeQuery(n) ==
    LET Cut(t) == IF Len(t) > MAX_GEOCODE_INPUT_LEN
                  THEN SubSeq(t, 1, MAX_GEOCODE_INPUT_LEN) ELSE t
    IN Cut(Trim(CollapseWhitespace(n)))

\* geocode(n, opts) on facade g.
geocode(g, tables, divisions, n, opts) ==
    LET Dispatch(q) ==
            IF opts.exactCity
            THEN exactMatchCity(g, tables, divisions, q) @@ [processed |-> q]
            ELSE fuzzyMatchLocation(g, tables, divisions, q, opts)
                 @@ [matching |-> <<>>, processed |-> q]
    IN IF Trim(CollapseWhitespace(n)) = ""
       THEN [pieces |-> [countryISO |-> "", stateCode |-> "", abbrevSlice |-> <<>>,
                         nameSlice |-> <<>>, adminRead |-> FALSE],
             candidates |-> <<>>, matching |-> <<>>, scores |-> <<>>,
             path |-> "blank", idx |-> -1, result |-> EmptyCity, processed |-> ""]
       ELSE Dispatch(NormalizeQuery(n))

-----------------------------------------------------------------------------
(* geobed.ts: the cell index and GeoBed.reverseGeocode                      *)

CityCell(city) ==
    cellIDParentAtLevel(cellIDFromLatLng(latLngFromDegrees(city.latitude, city.longitude)),
                        S2_CELL_LEVEL)

\* The turns lo..hi of the loop of buildCellIndex, i from lo up to hi.
RECURSIVE buildCellIndexFrom(_, _, _, _)
buildCellIndexFrom(cities, lo, hi, m) ==
    IF lo > hi THEN m
    ELSE IF lo = hi THEN MapPush(m, CityCell(cities[lo + 1]), lo)
    ELSE LET Continue(m2) ==
                 Strict(m2, buildCellIndexFrom(cities, (lo + hi) \div 2 + 1, hi, m2))
         IN Continue(buildCellIndexFrom(cities, lo, (lo + hi) \div 2, m))
buildCellIndex(cities) == buildCellIndexFrom(cities, 0, Len(cities) - 1, <<>>)

\* The corner loop of cellAndNeighbors: push the cells not seen yet.
RECURSIVE PushUnseen(_, _)
PushUnseen(cells, more) ==
    IF more = <<>> THEN cells
    ELSE LET Continue(cells2) == Strict(cells2, PushUnseen(cells2, Tail(more)))
         IN Continue(IF \E k \in 1..Len(cells) : cells[k] = Head(more)
                     THEN cells ELSE Append(cells, Head(more)))

cellAndNeighbors(cell) ==
    LET Corners(edgeNeighbors) ==
            PushUnseen(PushUnseen(PushUnseen(PushUnseen(<<cell>> \o edgeNeighbors,
                cellIDEdgeNeighbors(edgeNeighbors[1])),
                cellIDEdgeNeighbors(edgeNeighbors[2])),
                cellIDEdgeNeighbors(edgeNeighbors[3])),
                cellIDEdgeNeighbors(edgeNeighbors[4]))
    IN Corners(cellIDEdgeNeighbors(cell))

MAX_DISTANCE == 157000        \* 0.0157 rad
NEARBY_THRESHOLD == 15700     \* 0.00157 rad
SMALL_PLACE_POPULATION == 500000

\* The candidates of the cells, in cell order then index order.
RECURSIVE CollectCandidates(_, _, _)
CollectCandidates(g, cells, queryLL) ==
    IF cells = <<>> THEN <<>>
    ELSE LET Candidate(i, city) ==
                 [idx |-> i, city |-> city,
                  dist |-> angularDistance(queryLL,
                              latLngFromDegrees(city.latitude, city.longitude))]
             InCell(indices) ==
                 [k \in 1..Len(indices) |-> Candidate(indices[k], CityAt(g, indices[k]))]
         IN InCell(MapGet(g.cellIndex, Head(cells)))
            \o CollectCandidates(g, Tail(cells), queryLL)

\* A neighbourhood loop that does not stop at NEARBY_THRESHOLD.
RECURSIVE NearbyOverrideAnyDistance(_, _, _)
NearbyOverrideAnyDistance(candidates, i, best) ==
    IF i > Len(candidates) THEN best
    ELSE NearbyOverrideAnyDistance(candidates, i + 1,
            IF candidates[i].city.population > best.city.population * 10
            THEN candidates[i] ELSE best)

\* A neighbourhood loop that stops at half of NEARBY_THRESHOLD.
RECURSIVE NearbyOverrideHalfway(_, _, _)
NearbyOverrideHalfway(candidates, i, best) ==
    IF i > Len(candidates) THEN best
    ELSE LET c == candidates[i]
         IN IF 2 * c.dist > NEARBY_THRESHOLD THEN best
            ELSE NearbyOverrideHalfway(candidates, i + 1,
                    IF c.city.population > best.city.population * 10 THEN c ELSE best)

\* The neighbourhood loop: from the second candidate on, while within
\* NEARBY_THRESHOLD, a candidate with more than ten times the population of
\* the current best becomes the best.
RECURSIVE NearbyOverride(_, _, _)
NearbyOverride(candidates, i, best) ==
    IF i > Len(candidates) THEN best
    ELSE LET c == candidates[i]
         IN IF c.dist > NEARBY_THRESHOLD THEN best
            ELSE NearbyOverride(candidates, i + 1,
                    IF c.city.population > best.city.population * 10 THEN c ELSE best)

\* A validation that rejects the boundary values too.
InvalidCoordinatesClosed(lat, lng) ==
    \/ ~isFinite(lat) \/ ~isFinite(lng)
    \/ lat.v <= -9000 \/ lat.v >= 9000
    \/ lng.v <= -18000 \/ lng.v >= 18000

\* The input validation of reverseGeocode; lat and lng are JS numbers.
InvalidCoordinates(lat, lng) ==
    \/ ~isFinite(lat) \/ ~isFinite(lng)
    \/ lat.v < -9000 \/ lat.v > 9000
    \/ lng.v < -18000 \/ lng.v > 18000

\* A cutoff at twice the distance.
BeyondCutoffDoubled(dist) == dist > 2 * MAX_DISTANCE

\* `best.dist > MAX_DISTANCE`
BeyondCutoff(dist) == dist > MAX_DISTANCE

\* reverseGeocode(lat, lng) on facade g.
reverseGeocode(g, lat, lng) ==
    LET Found(candidates, best) ==
            [path |-> "found", candidates |-> candidates, idx |-> best.idx,
             result |-> best.city]
        Ranked(candidates) ==
            IF candidates = <<>>
            THEN [path |-> "no-candidate", candidates |-> <<>>, idx |-> -1,
                  result |-> EmptyCity]
            ELSE IF BeyondCutoff(candidates[1].dist)
            THEN [path |-> "too-far", candidates |-> candidates, idx |-> -1,
                  result |-> EmptyCity]
            ELSE Found(candidates,
                       IF candidates[1].city.population < SMALL_PLACE_POPULATION
                       THEN NearbyOverride(candidates, 2, candidates[1])
                       ELSE candidates[1])
        Around(queryLL) ==
            Ranked(SortBy(CollectCandidates(g,
                              cellAndNeighbors(cellIDParentAtLevel(cellIDFromLatLng(queryLL),
                                                                   S2_CELL_LEVEL)),
                              queryLL),
                          "candidates"))
    IN IF InvalidCoordinates(lat, lng)
       THEN [path |-> "invalid", candidates |-> <<>>, idx |-> -1, result |-> EmptyCity]
       ELSE Around(latLngFromDegrees(lat.v, lng.v))

-----------------------------------------------------------------------------
(* cache.ts, data-loader.ts downloadDataSets, GeoBed.loadDataSets and       *)
(* GeoBed.create                                                            *)

\* The content of a cache dir: what the three files decode to (<<>> for a
\* file that is absent or holds nothing), and the files whose decoding throws.
EmptyCache == [cities |-> <<>>, countries |-> <<>>, nameIndex |-> <<>>, corrupt |-> {}]

\* storeCache: the three cache files; a city is written with its country and
\* region codes as strings, read through the interners.
storeCache(tables, cities, countries, nameIndex) ==
    [cities |-> [k \in 1..Len(cities) |->
                    [city |-> cities[k].city, cityAlt |-> cities[k].cityAlt,
                     country |-> cityCountry(tables, cities[k]),
                     region |-> cityRegion(tables, cities[k]),
                     latitude |-> cities[k].latitude, longitude |-> cities[k].longitude,
                     population |-> cities[k].population]],
     countries |-> countries,
     nameIndex |-> nameIndex,
     corrupt |-> {}]

\* loadCachedCityData: the cached cities, their codes interned as they are
\* read.  `acc` carries the cities read so far and the two interner tables.
RECURSIVE loadCachedCityData(_, _)
loadCachedCityData(gobCities, acc) ==
    IF gobCities = <<>> THEN acc
    ELSE IF Len(gobCities) = 1
    THEN LET gc == gobCities[1]
             Read(cl, rl) ==
                 [cities |-> Append(acc.cities,
                                [city |-> gc.city, cityAlt |-> gc.cityAlt,
                                 countryIdx |-> InternId(cl, gc.country),
                                 regionIdx |-> InternId(rl, gc.region),
                                 latitude |-> gc.latitude, longitude |-> gc.longitude,
                                 population |-> gc.population]),
                  countryLookup |-> cl, regionLookup |-> rl]
         IN Read(InternTable(acc.countryLookup, gc.country),
                 InternTable(acc.regionLookup, gc.region))
    ELSE LET Continue(acc2) ==
                 Strict(acc2, loadCachedCityData(SubSeq(gobCities, Len(gobCities) \div 2 + 1,
                                                        Len(gobCities)), acc2))
         IN Continue(loadCachedCityData(SubSeq(gobCities, 1, Len(gobCities) \div 2), acc))

\* downloadDataSets(dataDir): a file already present is skipped; the network
\* serves `served` downloads and fails the next one, which makes the call
\* throw with the files fetched so far left on disk.
RECURSIVE downloadDataSets(_, _, _)
downloadDataSets(present, names, served) ==
    IF names = <<>> THEN [ok |-> TRUE, files |-> present]
    ELSE IF Head(names) \in present THEN downloadDataSets(present, Tail(names), served)
    ELSE IF served = 0 THEN [ok |-> FALSE, files |-> present]
    ELSE downloadDataSets(present \cup {Head(names)}, Tail(names), served - 1)

\* GeoBed.loadDataSets: cities1000 and countryInfo read from the data dir (the
\* optional MaxMind file is absent), the cities pushed onto `cities0`, the
\* cities the facade holds at the call, then sorted, the name index built.
loadDataSets(tables, cities0) ==
    LET Indexed(r, cities) ==
            [cities |-> cities,
             countries |-> loadGeonamesCountryInfo(CountryRows),
             nameIndex |-> buildNameIndex(cities),
             tables |-> [countryLookup |-> r.countryLookup,
                         regionLookup |-> r.regionLookup]]
        Read(r) == Indexed(r, SortBy(r.cities, "cities"))
    IN Read(loadGeonamesCities(GeonamesRows,
                [cities |-> cities0, countryLookup |-> tables.countryLookup,
                 regionLookup |-> tables.regionLookup]))

\* A test of the cache that looks at the cities alone.
CacheCompleteCitiesOnly(cities, countries, idx) == Len(cities) > 0

\* `cities && cities.length > 0`, `countries && countries.length > 0 && idx &&
\* idx.size > 0`: the three conditions under which create takes the cache.
CacheComplete(cities, countries, idx) ==
    Len(cities) > 0 /\ Len(countries) > 0 /\ Len(idx) > 0

\* A create that assigns g.cities as soon as the cities are read.
AssignedCitiesEager(cities, loaded) == cities

\* g.cities after the try block of create: the cached cities are assigned
\* together with `loaded = true`, after the three files were read.
AssignedCities(cities, loaded) == IF loaded THEN cities ELSE <<>>

\* A create that downloads only when no cache was loaded.
EnsuresDataFilesUnlessLoaded(loaded) == ~loaded

\* `await downloadDataSets(cfg.dataDir)` in create is not conditional on the
\* cache having been loaded.
EnsuresDataFiles(loaded) == TRUE

NoFacade ==
    [made |-> FALSE, config |-> [dataDir |-> "", cacheDir |-> ""], cities |-> <<>>,
     countries |-> <<>>, nameIndex |-> <<>>, cellIndex |-> <<>>,
     countriesByNameLength |-> <<>>]

\* GeoBed.create with configuration cfg, run on interner tables `tables`
\* (already past initLookupTables), with `cached` the content of cfg.cacheDir
\* and `present` the files in cfg.dataDir.  ok is FALSE when the call rejects;
\* tables, files and cache are the process and disk state it leaves either way.
create(cfg, tables, cached, present, served) ==
    LET Made(loaded, dl, cities, countries, nameIndex, tables2, fromFiles) ==
            [ok |-> TRUE,
             g |-> [made |-> TRUE, config |-> cfg, cities |-> cities,
                    countries |-> countries, nameIndex |-> nameIndex,
                    cellIndex |-> buildCellIndex(cities),
                    countriesByNameLength |-> SortBy(countries, "countries")],
             tables |-> tables2, files |-> dl.files,
             cache |-> IF fromFiles
                       THEN storeCache(tables2, cities, countries, nameIndex)
                       ELSE cached,
             loaded |-> loaded]
        Rebuilt(loaded, dl, rebuilt) ==
            Made(loaded, dl, rebuilt.cities, rebuilt.countries, rebuilt.nameIndex,
                 rebuilt.tables, TRUE)
        Downloaded(gCities, tables1, loaded, dl) ==
            IF ~dl.ok
            THEN [ok |-> FALSE, g |-> NoFacade, tables |-> tables1, files |-> dl.files,
                  cache |-> cached, loaded |-> loaded]
            ELSE IF ~loaded \/ Len(gCities) = 0
            THEN Rebuilt(loaded, dl, loadDataSets(tables1, gCities))
            ELSE Made(loaded, dl, gCities, cached.countries, cached.nameIndex,
                      tables1, FALSE)
        Loaded(gCities, tables1, loaded) ==
            Downloaded(gCities, tables1, loaded,
                       IF EnsuresDataFiles(loaded)
                       THEN downloadDataSets(present, DataFileNames, served)
                       ELSE [ok |-> TRUE, files |-> present])
        Tried(fromCache, loaded) ==
            Loaded(AssignedCities(fromCache.cities, loaded),
                   [countryLookup |-> fromCache.countryLookup,
                    regionLookup |-> fromCache.regionLookup],
                   loaded)
        \* The try block: a file whose decoding throws ends it; countries and
        \* nameIndex are read only after non-empty cities.
        FromCache(fromCache) ==
            Tried(fromCache,
                  /\ Len(fromCache.cities) > 0
                  /\ "countries" \notin cached.corrupt
                  /\ "nameIndex" \notin cached.corrupt
                  /\ CacheComplete(fromCache.cities, cached.countries, cached.nameIndex))
    IN FromCache(loadCachedCityData(IF "cities" \in cached.corrupt THEN <<>>
                                    ELSE cached.cities,
                    [cities |-> <<>>, countryLookup |-> tables.countryLookup,
                     regionLookup |-> tables.regionLookup]))

-----------------------------------------------------------------------------
(* The client process: its facades, and the inputs it calls them with.     *)

Handles == {"g1", "g2"}
Config(f) == [dataDir |-> "d1", cacheDir |-> IF f = "g1" THEN "c1" ELSE "c2"]

ScoredOpts == [exactCity |-> FALSE, fuzzyDistance |-> 0]
ExactOpts == [exactCity |-> TRUE, fuzzyDistance |-> 0]
FuzzyOpts == [exactCity |-> FALSE, fuzzyDistance |-> 1]
Options == {ScoredOpts, ExactOpts, FuzzyOpts}

\* The geocode calls of the client: a query and the options it is made with.
GeocodeInputs ==
    ({"", "   ", "Paris", "Paris, TX", "Paris, Foo", "Boston", "Boston ENG",
      "Bombay", "Vasai", "Mitte", "Berlin", "Orleans", "Delhi India", "New York",
      "Oldtown", "Newtown", "Lonely", "Nord", "Croft", "Zxqwvbn", "Pariss", "TX",
      "Juba South Sudan", "Juba, Sudan", "Texas", "Kirk MH India", "Mitte BE",
      "Boston ENG India", "Boston MA India", "Texas India"}
        \X {ScoredOpts})
    \cup ({"Paris", "Paris, Foo", "Boston ENG", "Mitte", "Zxqwvbn", "Boston", "Kirk",
            "Zero", "Kirk India", "Paris France", "Delhi India"} \X {ExactOpts})
    \cup ({"Pariss", "Paris", "Zxqwvbn"} \X {FuzzyOpts})

\* The calls the client compares in pairs: a query and its case variants, a
\* long query and its prefixes.
PairInputs ==
    ({"Paris", "PARIS", "Paris, Texas", "paris, texas",
      "Boston ENG", "Boston GB", "boston gb", "Bombay", "bombay",
      "Paris,      Texas", "Paris,      Texa", "Paris, Delaware x", "Paris, Delaware ",
      "Boston United Kingdom", "Boston United Ki", "Boston United Kin"}
        \X {ScoredOpts})
    \cup ({"Boston GB", "boston gb", "Boston United Kingdom", "Boston United Ki"}
            \X {ExactOpts})

\* The reverseGeocode calls of the client, in hundredths of a degree.
ReverseInputs ==
    ({ Num(v) : v \in {-9001, -9000, 600, 1000, 1002, 2000, 2002, 3500, 3589,
                       3590, 5253, 5254, 8995, 9000, 9001} }
        \cup {NaN, PosInfinity, NegInfinity}) \X {Num(0)}
    \cup {Num(-1680), Num(8995)}
            \X ({ Num(v) : v \in {-18001, -18000, 18000, 18001} }
                    \cup {NaN, PosInfinity, NegInfinity})

Tables == [countryLookup |-> countryLookup, regionLookup |-> regionLookup]
FreshTables == [countryLookup |-> NewInterner, regionLookup |-> NewInterner]

\* The five fields of a facade the queries read.
Corpus(g) ==
    [cities |-> g.cities, countries |-> g.countries, nameIndex |-> g.nameIndex,
     cellIndex |-> g.cellIndex, countriesByNameLength |-> g.countriesByNameLength]

\* A first create of a process from the data files, and a first create from
\* the cache such a create stores: the corpora and interner tables a process
\* can hold, and the content of a stored cache.
Built ==
    LET World(r) == [g |-> Corpus(r.g), tables |-> r.tables]
        Both(fromFiles, fromCache) ==
            [worlds |-> <<World(fromFiles), World(fromCache)>>,
             stored |-> fromFiles.cache]
        Again(fromFiles) ==
            Strict(fromFiles,
                   Both(fromFiles,
                        create(Config("g1"), FreshTables, fromFiles.cache, {},
                               Len(DataFileNames))))
        Forced(b) == Strict(b, b)
    IN Forced(Again(create(Config("g1"), FreshTables, EmptyCache, {}, Len(DataFileNames))))
Worlds == Built.worlds
StoredCache == Built.stored
\* The corpus of g and the interner tables are as a create left them.
AsBuilt(g) ==
    \E w \in 1..Len(Worlds) : Worlds[w] = [g |-> Corpus(g), tables |-> Tables]
WorldOf(g) ==
    LET Among(worlds) ==
            CHOOSE w \in 1..Len(worlds) : worlds[w] = [g |-> Corpus(g), tables |-> Tables]
    IN Among(Worlds)

\* create, geocode and reverseGeocode tabulated over the arguments the calls of
\* the model pass them, each entry computed once.
CreateTable ==
    LET Tabulate(b) ==
            [a \in [cfg : {Config(f) : f \in Handles},
                    tables : {FreshTables, b.worlds[1].tables, b.worlds[2].tables},
                    cached : {EmptyCache, b.stored},
                    present : { {DataFileNames[k] : k \in 1..m} : m \in 0..Len(DataFileNames) },
                    served : 0..Len(DataFileNames)]
             |-> create(a.cfg, a.tables, a.cached, a.present, a.served)]
        Forced(t) == Strict(t, t)
    IN Forced(Tabulate(Built))
GeocodeTable ==
    LET Tabulate(worlds) ==
            [w \in 1..Len(worlds) |-> [divisions \in {{}, ParsedDivisions} |->
                [c \in GeocodeInputs \cup PairInputs |->
                    geocode(worlds[w].g, worlds[w].tables, divisions, c[1], c[2])]]]
        Forced(t) == Strict(t, t)
    IN Forced(Tabulate(Worlds))
ReverseTable ==
    LET CorpusCoordinates(cities) ==
            { <<Num(cities[k].latitude), Num(cities[k].longitude)>> : k \in 1..Len(cities) }
        Tabulate(worlds) ==
            [w \in 1..Len(worlds) |->
                [c \in ReverseInputs \cup CorpusCoordinates(worlds[w].g.cities) |->
                    reverseGeocode(worlds[w].g, c[1], c[2])]]
        Forced(t) == Strict(t, t)
    IN Forced(Tabulate(Worlds))

-----------------------------------------------------------------------------
(* The state machine.                                                      *)

\* The callers of getDefaultGeobed; a caller holds nothing, awaits the promise
\* it was returned, or has the instance or the rejection it settled with.
NumCallers == 3
Callers == 1..NumCallers
Idle == [pc |-> "idle", promise |-> 0, value |-> 0]

\* A handle no GeoBed.create call was made for.
NotCreating ==
    [pc |-> "idle", pos |-> 0, cities |-> <<>>, loaded |-> FALSE, loadedWith |-> {}]

NoCall ==
    [op |-> "none", f |-> "", n |-> "", opts |-> ScoredOpts,
     lat |-> Num(0), lng |-> Num(0), out |-> [result |-> EmptyCity]]

\* A fresh process: no facade, no interner, nothing read.  The disk either is
\* empty or holds in c1 the cache an earlier process stored.
Init ==
    /\ initialized = FALSE
    /\ countryLookup = <<>>
    /\ regionLookup = <<>>
    /\ adminCache = [d \in DataDirs |-> [cached |-> FALSE, divisions |-> {}]]
    /\ dataFiles = [d \in DataDirs |-> {}]
    /\ cacheStore \in { [c \in CacheDirs |-> EmptyCache],
                        [c \in CacheDirs |-> IF c = "c1" THEN StoredCache
                                             ELSE EmptyCache] }
    /\ facades = [f \in Handles |-> NoFacade]
    /\ last = NoCall
    /\ held = NoCall
    /\ defaultGeoBed = 0
    /\ defaultGeoBedPromise = 0
    /\ constructions = <<>>
    /\ callers = [c \in Callers |-> Idle]
    /\ interner = StringInterner
    /\ creating = [f \in Handles |-> NotCreating]

\* `f = await GeoBed.create(withDataDir(..), withCacheDir(..))`, with the
\* server delivering `served` files before it fails.
Create(f, served) ==
    LET cfg == Config(f)
        Tabulated(a) ==
            IF a \in DOMAIN CreateTable THEN CreateTable[a]
            ELSE create(a.cfg, a.tables, a.cached, a.present, a.served)
        Returned(r) ==
            /\ initialized' = TRUE
            /\ countryLookup' = r.tables.countryLookup
            /\ regionLookup' = r.tables.regionLookup
            /\ dataFiles' = [dataFiles EXCEPT ![cfg.dataDir] = r.files]
            /\ cacheStore' = [cacheStore EXCEPT ![cfg.cacheDir] = r.cache]
            /\ facades' = IF r.ok THEN [facades EXCEPT ![f] = r.g] ELSE facades
            /\ last' = [NoCall EXCEPT !.op = "create", !.f = f,
                                      !.out = [ok |-> r.ok, loaded |-> r.loaded,
                                               result |-> EmptyCity]]
            /\ UNCHANGED adminCache
        Forced(r) == Strict(r, Returned(r))
    IN Forced(Tabulated([cfg |-> cfg,
                         tables |-> IF initialized THEN Tables ELSE FreshTables,
                         cached |-> cacheStore[cfg.cacheDir],
                         present |-> dataFiles[cfg.dataDir],
                         served |-> served]))

\* What `facades[f].geocode(n, opts)` computes in the current state.
GeocodeCall(f, n, opts) ==
    LET g == facades[f]
        divisions == loadAdminDivisionsForDir(adminCache, dataFiles, g.config.dataDir)
    IN [NoCall EXCEPT !.op = "geocode", !.f = f, !.n = n, !.opts = opts,
                      !.out = IF AsBuilt(g)
                              THEN GeocodeTable[WorldOf(g)][divisions][<<n, opts>>]
                              ELSE geocode(g, Tables, divisions, n, opts)]

\* `facades[f].geocode(n, opts)`
Geocode(f, n, opts) ==
    /\ facades[f].made
    /\ last' = GeocodeCall(f, n, opts)
    /\ adminCache' = IF last'.out.pieces.adminRead
                     THEN AdminCacheAfterLoad(adminCache, dataFiles,
                                              facades[f].config.dataDir)
                     ELSE adminCache
    /\ UNCHANGED <<initialized, countryLookup, regionLookup, dataFiles,
                   cacheStore, facades>>

\* What `facades[f].reverseGeocode(lat, lng)` computes in the current state.
ReverseCall(f, lat, lng) ==
    [NoCall EXCEPT !.op = "reverse", !.f = f, !.lat = lat, !.lng = lng,
                   !.out = IF AsBuilt(facades[f])
                           THEN ReverseTable[WorldOf(facades[f])][<<lat, lng>>]
                           ELSE reverseGeocode(facades[f], lat, lng)]

\* `facades[f].reverseGeocode(lat, lng)`
ReverseGeocode(f, lat, lng) ==
    /\ facades[f].made
    /\ last' = ReverseCall(f, lat, lng)
    /\ UNCHANGED <<initialized, countryLookup, regionLookup, adminCache,
                   dataFiles, cacheStore, facades>>

\* `r = f.geocode(n); f.reverseGeocode(r.latitude, r.longitude)`: the second
\* call of a round trip, n keeping the query that produced r.
RoundTrip(f) ==
    /\ facades[f].made
    /\ last.op = "geocode"
    /\ last.f = f
    /\ last.out.result # EmptyCity
    /\ last' = [ReverseCall(f, Num(last.out.result.latitude),
                               Num(last.out.result.longitude))
                  EXCEPT !.op = "roundtrip", !.n = last.n, !.opts = last.opts]
    /\ held' = last
    /\ UNCHANGED <<initialized, countryLookup, regionLookup, adminCache,
                   dataFiles, cacheStore, facades>>

Next ==
    \/ \E f \in Handles, served \in 0..Len(DataFileNames) :
          Create(f, served) /\ held' = NoCall /\ UNCHANGED helperVars
    \/ \E f \in Handles, c \in GeocodeInputs :
          Geocode(f, c[1], c[2]) /\ held' = NoCall /\ UNCHANGED helperVars
    \/ \E f \in Handles, c \in ReverseInputs :
          ReverseGeocode(f, c[1], c[2]) /\ held' = NoCall /\ UNCHANGED helperVars
    \/ \E f \in Handles : RoundTrip(f) /\ UNCHANGED helperVars

Spec == Init /\ [][Next]_vars

\* The client keeps the record of its last geocode call to compare a later
\* one with.
Hold ==
    /\ last.op = "geocode"
    /\ held' = last
    /\ UNCHANGED <<initialized, countryLookup, regionLookup, adminCache,
                   dataFiles, cacheStore, facades, last, helperVars>>

\* The facade whose calls the client compares.
Compared == "g1"

NextPair ==
    \/ \E f \in Handles, served \in 0..Len(DataFileNames) :
          Create(f, served) /\ UNCHANGED <<held, helperVars>>
    \/ \E c \in PairInputs :
          Geocode(Compared, c[1], c[2]) /\ UNCHANGED <<held, helperVars>>
    \/ Hold

SpecPair == Init /\ [][NextPair]_vars

-----------------------------------------------------------------------------
(* The cache dir of a facade damaged between two creates.                  *)

CacheFileNames == {"cities", "countries", "nameIndex"}

\* Outside the process, file `name` of the cache dir of Compared, so far as
\* create stored it, is deleted (how = "absent") or overwritten with bytes
\* that do not decode.  The client keeps the record of it in `held` at its
\* next create.
Damage(name, how) ==
    LET dir == Config(Compared).cacheDir
        Damaged(cached) ==
            IF how = "absent" THEN [cached EXCEPT ![name] = <<>>]
            ELSE [cached EXCEPT !.corrupt = cached.corrupt \cup {name}]
        Left(after) ==
            /\ cacheStore' = [cacheStore EXCEPT ![dir] = after]
            /\ last' = [NoCall EXCEPT
                          !.op = "damage",
                          !.out = [corrupt |-> after.corrupt,
                                   absent |-> { c \in CacheFileNames : after[c] = <<>> },
                                   result |-> EmptyCity]]
    IN /\ Len(cacheStore[dir][name]) > 0
       /\ name \notin cacheStore[dir].corrupt
       /\ Left(Damaged(cacheStore[dir]))
       /\ UNCHANGED <<initialized, countryLookup, regionLookup, adminCache,
                      dataFiles, facades, held, helperVars>>

NextCache ==
    \/ \E served \in {0, Len(DataFileNames)} :
          Create(Compared, served) /\ held' = last /\ UNCHANGED helperVars
    \/ \E name \in CacheFileNames, how \in {"absent", "corrupt"} : Damage(name, how)

SpecCache == Init /\ [][NextCache]_vars

-----------------------------------------------------------------------------
(* A caller that writes into the record a query returned.                  *)

\* The queries of that caller.
KeptQueries == {<<"Paris", ScoredOpts>>, <<"Boston", ExactOpts>>}
KeptCoordinates == {<<Num(1000), Num(0)>>}

\* `r = g.geocode(..)` or `r = g.reverseGeocode(..)`, then `r.city = name`.
\* A non-empty r is the object the call returned, `this.cities[k]` or the
\* `city` of a candidate, which is that same object: the assignment writes
\* into the cities array of the facade.
Modify(name) ==
    /\ last.op \in {"geocode", "reverse"}
    /\ last.out.idx >= 0
    /\ last.out.result.city # name
    /\ facades' = [facades EXCEPT ![last.f].cities[last.out.idx + 1].city = name]
    /\ last' = [last EXCEPT !.op = "modify", !.out.result.city = name]
    /\ UNCHANGED <<initialized, countryLookup, regionLookup, adminCache, dataFiles,
                   cacheStore, held, helperVars>>

NextKept ==
    \/ \E served \in {0, Len(DataFileNames)} :
          Create(Compared, served) /\ UNCHANGED <<held, helperVars>>
    \/ \E c \in KeptQueries :
          Geocode(Compared, c[1], c[2]) /\ UNCHANGED <<held, helperVars>>
    \/ \E c \in KeptCoordinates :
          ReverseGeocode(Compared, c[1], c[2]) /\ UNCHANGED <<held, helperVars>>
    \/ Modify("Changed")

SpecKept == Init /\ [][NextKept]_vars

-----------------------------------------------------------------------------
(* s2-geometry.ts: cells as (face, i, j), a leaf having i and j in          *)
(* 0..2^MAX_LEVEL - 1.  The Hilbert-curve numbering is one to one on the     *)
(* cells of a level, so a cell id is kept as the face, the level and the    *)
(* i and j of the cell in units of its own size.                            *)

MAX_LEVEL == 3

\* sizeIJ(level): 1 << (MAX_LEVEL - level)
sizeIJ(level) == 2 ^ (MAX_LEVEL - level)

\* cellIDParent(cellIDFromFaceIJ(face, i, j), level)
cellIDParent(face, i, j, level) ==
    [face |-> face, level |-> level, i |-> i \div sizeIJ(level), j |-> j \div sizeIJ(level)]

\* cellIDEdgeNeighbors(id), with (i, j) the leaf of the cell `id` that
\* cellIDToFaceIJ decodes.  A coordinate that leaves the face goes through
\* cellIDFromFaceIJWrap, which brings it back to 0..2^MAX_LEVEL - 1 of the
\* same face with Math.max / Math.min.
FaceEdgeNeighbors(id, i, j) ==
    LET size == sizeIJ(id.level)
        maxSize == 2 ^ MAX_LEVEL
        Clamp(x) == IF x < 0 THEN 0 ELSE IF x > maxSize - 1 THEN maxSize - 1 ELSE x
        cellIDFromFaceIJWrap(ni, nj) == cellIDParent(id.face, Clamp(ni), Clamp(nj), id.level)
        cellIDFromFaceIJSame(ni, nj, sameFace) ==
            IF sameFace THEN cellIDParent(id.face, ni, nj, id.level)
            ELSE cellIDFromFaceIJWrap(ni, nj)
    IN << cellIDFromFaceIJSame(i, j - size, j - size >= 0),
          cellIDFromFaceIJSame(i + size, j, i + size < maxSize),
          cellIDFromFaceIJSame(i, j + size, j + size < maxSize),
          cellIDFromFaceIJSame(i - size, j, i - size >= 0) >>

\* cellIDEdgeNeighbors(id) for the cell at (ci, cj) of its face, in units of
\* the cell size; the leaf cellIDToFaceIJ decodes is one of the leaves of
\* the cell, at (di, dj) from its corner.
CellNeighbors(face, level, ci, cj, di, dj) ==
    LET Called(id) ==
            [NoCall EXCEPT
                !.op = "neighbors",
                !.out = [cell |-> id,
                         neighbors |-> FaceEdgeNeighbors(id, ci * sizeIJ(level) + di,
                                                         cj * sizeIJ(level) + dj),
                         result |-> EmptyCity]]
    IN /\ last' = Called([face |-> face, level |-> level, i |-> ci, j |-> cj])
       /\ UNCHANGED <<initialized, countryLookup, regionLookup, adminCache,
                      dataFiles, cacheStore, facades, held, helperVars>>

NextCells ==
    \E face \in 0..5, level \in 0..MAX_LEVEL :
        \E ci, cj \in 0..(2 ^ level - 1), di, dj \in {0, sizeIJ(level) - 1} :
            CellNeighbors(face, level, ci, cj, di, dj)

SpecCells == Init /\ [][NextCells]_vars

-----------------------------------------------------------------------------
(* getDefaultGeobed: the module variables, the construction it starts and  *)
(* the callers awaiting it.                                                 *)

\* defaultConfig(): the directories of a create without options.
defaultConfig == [dataDir |-> "d1", cacheDir |-> "c1"]

MaxConstructions == 3

\* A getDefaultGeobed that starts a construction at every call.
PromiseUnsetAlways(p) == TRUE

\* A getDefaultGeobed that starts again after a failed construction.
PromiseUnsetOrFailed(p) == p = 0 \/ constructions[p].state = "rejected"

\* `!defaultGeoBedPromise`
PromiseUnset(p) == p = 0

\* Caller c calls getDefaultGeobed(): the body up to its return.  A set
\* defaultGeoBed is returned as it is; otherwise the caller is returned the
\* promise, created with a new GeoBed.create() when there is none.
GetDefaultGeobed(c) ==
    /\ callers[c].pc # "awaiting"
    /\ IF defaultGeoBed # 0
       THEN /\ callers' = [callers EXCEPT ![c] = [pc |-> "resolved", promise |-> 0,
                                                  value |-> defaultGeoBed]]
            /\ UNCHANGED <<defaultGeoBedPromise, constructions>>
       ELSE IF PromiseUnset(defaultGeoBedPromise)
       THEN /\ Len(constructions) < MaxConstructions
            /\ constructions' = Append(constructions,
                                       [state |-> "pending", g |-> NoFacade])
            /\ defaultGeoBedPromise' = Len(constructions) + 1
            /\ callers' = [callers EXCEPT ![c] = [pc |-> "awaiting",
                                                  promise |-> Len(constructions) + 1,
                                                  value |-> 0]]
       ELSE /\ callers' = [callers EXCEPT ![c] = [pc |-> "awaiting",
                                                  promise |-> defaultGeoBedPromise,
                                                  value |-> 0]]
            /\ UNCHANGED <<defaultGeoBedPromise, constructions>>
    /\ UNCHANGED <<initialized, countryLookup, regionLookup, adminCache, dataFiles,
                   cacheStore, facades, last, held, defaultGeoBed, interner, creating>>

\* Construction k ends, the server having delivered `served` files: the
\* effects of GeoBed.create() and, when it fulfils, the `.then` callback
\* `g => { defaultGeoBed = g; return g; }`, which settles the promise.
Constructed(k, served) ==
    LET r == CreateTable[[cfg |-> defaultConfig,
                          tables |-> IF initialized THEN Tables ELSE FreshTables,
                          cached |-> cacheStore[defaultConfig.cacheDir],
                          present |-> dataFiles[defaultConfig.dataDir],
                          served |-> served]]
    IN /\ constructions[k].state = "pending"
       /\ initialized' = TRUE
       /\ countryLookup' = r.tables.countryLookup
       /\ regionLookup' = r.tables.regionLookup
       /\ dataFiles' = [dataFiles EXCEPT ![defaultConfig.dataDir] = r.files]
       /\ cacheStore' = [cacheStore EXCEPT ![defaultConfig.cacheDir] = r.cache]
       /\ constructions' = [constructions EXCEPT ![k] =
                               IF r.ok THEN [state |-> "fulfilled", g |-> r.g]
                               ELSE [state |-> "rejected", g |-> NoFacade]]
       /\ defaultGeoBed' = IF r.ok THEN k ELSE defaultGeoBed
       /\ UNCHANGED <<adminCache, facades, last, held, defaultGeoBedPromise,
                      callers, interner, creating>>

\* The await of caller c ends: the promise it holds has settled.
Settled(c) ==
    /\ callers[c].pc = "awaiting"
    /\ constructions[callers[c].promise].state # "pending"
    /\ callers' = [callers EXCEPT ![c] =
                      IF constructions[callers[c].promise].state = "fulfilled"
                      THEN [pc |-> "resolved", promise |-> callers[c].promise,
                            value |-> callers[c].promise]
                      ELSE [pc |-> "rejected", promise |-> callers[c].promise,
                            value |-> 0]]
    /\ UNCHANGED <<initialized, countryLookup, regionLookup, adminCache, dataFiles,
                   cacheStore, facades, last, held, defaultGeoBed,
                   defaultGeoBedPromise, constructions, interner, creating>>

NextDefault ==
    \/ \E c \in Callers : GetDefaultGeobed(c)
    \/ \E k \in 1..Len(constructions), served \in 0..Len(DataFileNames) :
          Constructed(k, served)
    \/ \E c \in Callers : Settled(c)

SpecDefault == Init /\ [][NextDefault]_vars

\* The job queue runs the continuation of every await whose promise has
\* settled.
SpecDefaultFair == SpecDefault /\ \A c \in Callers : WF_vars(Settled(c))

-----------------------------------------------------------------------------
(* Several GeoBed.create calls in progress at once.  A call runs from one   *)
(* await to the next without interruption; the lines of cities1000 reach    *)
(* loadGeonamesCities one event at a time, so the lines of two calls         *)
(* interleave.                                                              *)

\* An initLookupTables that makes new interners at every call.
initLookupTablesResetting(done, tables) == FreshTables

\* initLookupTables(): `if (initialized) return;`, else two new interners.
initLookupTables(done, tables) == IF done THEN tables ELSE FreshTables

\* The records of `cities` from position `from` on, each with the codes of
\* the line or cache entry `source` it was made from.
LoadedWith(cities, from, source) ==
    { [rec |-> cities[k], country |-> source[k - from + 1].country,
       region |-> source[k - from + 1].region] : k \in from..Len(cities) }

\* The facade create returns for handle f with the given corpus.
Facade(f, cities, countries, nameIndex) ==
    [made |-> TRUE, config |-> Config(f), cities |-> cities,
     countries |-> countries, nameIndex |-> nameIndex,
     cellIndex |-> buildCellIndex(cities),
     countriesByNameLength |-> SortBy(countries, "countries")]

\* `GeoBed.create(...)` for handle f, up to `await downloadDataSets(..)`:
\* initLookupTables, then the try block, which interns the codes of every
\* cached city.
BeginCreate(f) ==
    LET cached == cacheStore[Config(f).cacheDir]
        Tried(fromCache, loaded) ==
            /\ initialized' = TRUE
            /\ countryLookup' = fromCache.countryLookup
            /\ regionLookup' = fromCache.regionLookup
            /\ creating' = [creating EXCEPT ![f] =
                  [pc |-> "downloading", pos |-> 0,
                   cities |-> AssignedCities(fromCache.cities, loaded),
                   loaded |-> loaded,
                   loadedWith |-> IF loaded
                                  THEN LoadedWith(fromCache.cities, 1, cached.cities)
                                  ELSE {}]]
        FromCache(fromCache) ==
            Tried(fromCache,
                  /\ Len(fromCache.cities) > 0
                  /\ "countries" \notin cached.corrupt
                  /\ "nameIndex" \notin cached.corrupt
                  /\ CacheComplete(fromCache.cities, cached.countries, cached.nameIndex))
        Started(tables) ==
            FromCache(loadCachedCityData(IF "cities" \in cached.corrupt THEN <<>>
                                         ELSE cached.cities,
                          [cities |-> <<>>, countryLookup |-> tables.countryLookup,
                           regionLookup |-> tables.regionLookup]))
    IN /\ creating[f].pc = "idle"
       /\ Started(initLookupTables(initialized, Tables))
       /\ UNCHANGED <<adminCache, dataFiles, cacheStore, facades, last, held,
                      defaultGeoBed, defaultGeoBedPromise, constructions, callers,
                      interner>>

\* The await of downloadDataSets ends for handle f.  A failed download
\* rejects the call; with the cache loaded the call runs to its return;
\* otherwise loadDataSets opens cities1000.
Downloaded(f, served) ==
    LET c == creating[f]
        Ended(dl) ==
            /\ dataFiles' = [dataFiles EXCEPT ![Config(f).dataDir] = dl.files]
            /\ creating' = [creating EXCEPT ![f].pc =
                               IF ~dl.ok THEN "rejected"
                               ELSE IF ~c.loaded \/ Len(c.cities) = 0 THEN "reading"
                               ELSE "done"]
            /\ facades' = IF dl.ok /\ c.loaded /\ Len(c.cities) # 0
                          THEN [facades EXCEPT ![f] =
                                   Facade(f, c.cities,
                                          cacheStore[Config(f).cacheDir].countries,
                                          cacheStore[Config(f).cacheDir].nameIndex)]
                          ELSE facades
    IN /\ c.pc = "downloading"
       /\ Ended(downloadDataSets(dataFiles[Config(f).dataDir], DataFileNames, served))
       /\ UNCHANGED <<initialized, countryLookup, regionLookup, adminCache, cacheStore,
                      last, held, defaultGeoBed, defaultGeoBedPromise, constructions,
                      callers, interner>>

\* The 'line' event of the next line of cities1000 for the call of handle f.
ReadLine(f) ==
    LET c == creating[f]
        row == GeonamesRows[c.pos + 1]
        Read(r) ==
            /\ countryLookup' = r.countryLookup
            /\ regionLookup' = r.regionLookup
            /\ creating' = [creating EXCEPT ![f] =
                  [c EXCEPT !.pos = c.pos + 1,
                            !.cities = r.cities,
                            !.loadedWith =
                                c.loadedWith
                                \cup LoadedWith(r.cities, Len(c.cities) + 1,
                                                <<[country |-> row.country,
                                                   region |-> row.admin1]>>)]]
    IN /\ c.pc = "reading"
       /\ c.pos < Len(GeonamesRows)
       /\ Read(loadGeonamesCities(<<row>>,
                   [cities |-> c.cities, countryLookup |-> countryLookup,
                    regionLookup |-> regionLookup]))
       /\ UNCHANGED <<initialized, adminCache, dataFiles, cacheStore, facades, last,
                      held, defaultGeoBed, defaultGeoBedPromise, constructions, callers,
                      interner>>

\* The 'end' event of the zip file for the call of handle f, and the call to
\* its return: countryInfo read, the cities sorted, the name index built, the
\* cache stored, the cell index built.
EndRead(f) ==
    LET c == creating[f]
        Stored(cities, countries, nameIndex) ==
            /\ cacheStore' = [cacheStore EXCEPT ![Config(f).cacheDir] =
                                 storeCache(Tables, cities, countries, nameIndex)]
            /\ facades' = [facades EXCEPT ![f] = Facade(f, cities, countries, nameIndex)]
            /\ creating' = [creating EXCEPT ![f] =
                               [c EXCEPT !.pc = "done", !.cities = cities]]
        Sorted(cities) ==
            Stored(cities, loadGeonamesCountryInfo(CountryRows), buildNameIndex(cities))
    IN /\ c.pc = "reading"
       /\ c.pos = Len(GeonamesRows)
       /\ Sorted(SortBy(c.cities, "cities"))
       /\ UNCHANGED <<initialized, countryLookup, regionLookup, adminCache, dataFiles,
                      last, held, defaultGeoBed, defaultGeoBedPromise, constructions,
                      callers, interner>>

NextConcurrent ==
    \/ \E f \in Handles : BeginCreate(f)
    \/ \E f \in Handles, served \in {0, Len(DataFileNames)} : Downloaded(f, served)
    \/ \E f \in Handles : ReadLine(f)
    \/ \E f \in Handles : EndRead(f)

SpecConcurrent == Init /\ [][NextConcurrent]_vars

-----------------------------------------------------------------------------
(* A StringInterner object and the calls of its methods.                   *)

\* The strings the object is asked to intern.
InternInputs == {"", "US", "FR", "TX", "us"}

MaxInterned == 6

\* `id = interner.intern(s)`
CallIntern(s) ==
    LET r == intern(interner, s)
    IN /\ count(interner) < MaxInterned
       /\ interner' = r.t
       /\ last' = [NoCall EXCEPT !.op = "intern", !.n = s,
                                 !.out = [id |-> r.id, result |-> EmptyCity]]
       /\ UNCHANGED <<initialized, countryLookup, regionLookup, adminCache,
                      dataFiles, cacheStore, facades, held, defaultGeoBed,
                      defaultGeoBedPromise, constructions, callers, creating>>

\* `str = interner.get(idx)`
CallGet(idx) ==
    /\ last' = [NoCall EXCEPT !.op = "get",
                              !.out = [idx |-> idx, str |-> get(interner, idx),
                                       result |-> EmptyCity]]
    /\ UNCHANGED <<initialized, countryLookup, regionLookup, adminCache,
                   dataFiles, cacheStore, facades, held, helperVars>>

NextInterner ==
    \/ \E s \in InternInputs : CallIntern(s)
    \/ \E idx \in -2..(MaxInterned + 1) : CallGet(idx)

SpecInterner == Init /\ [][NextInterner]_vars

-----------------------------------------------------------------------------
(* The claims.                                                             *)

\* Whether r is a record of the corpus of facade f.
InCorpus(f, r) == \E k \in 1..Len(facades[f].cities) : facades[f].cities[k] = r

IsQuery == last.op \in {"geocode", "reverse", "roundtrip"}
IsReverse == last.op \in {"reverse", "roundtrip"}

\* The angular distance between the point a reverse call asked about and the
\* record it returned.
ResultDistance ==
    angularDistance(latLngFromDegrees(last.lat.v, last.lng.v),
                    latLngFromDegrees(last.out.result.latitude,
                                      last.out.result.longitude))

\* C1: every geocode and reverseGeocode call returns, and what it returns is
\* the empty record or a record of the corpus whose city is not empty.
C1_Total ==
    IsQuery =>
        \/ last.out.result = EmptyCity
        \/ last.out.result.city # "" /\ InCorpus(last.f, last.out.result)

\* A reverse lookup next to the nameless line of the data file returns a
\* named record of the corpus.
C1_Witness ==
    /\ last.op = "reverse" /\ last.lat = Num(5254) /\ last.lng = Num(0)
    /\ last.out.result.city = "Berlin"

\* C2: reverseGeocode returns the empty record when a coordinate is NaN or
\* infinite or lies outside [-90, 90] x [-180, 180], and it does not reject
\* the boundary values themselves.
C2_Validation ==
    IsReverse =>
        /\ (\/ last.lat.kind # "num" \/ last.lng.kind # "num"
            \/ last.lat.v < -9000 \/ last.lat.v > 9000
            \/ last.lng.v < -18000 \/ last.lng.v > 18000)
              => last.out.result = EmptyCity /\ last.out.path = "invalid"
        /\ (/\ last.lat.kind = "num" /\ last.lng.kind = "num"
            /\ last.lat.v \in -9000..9000 /\ last.lng.v \in -18000..18000
            /\ (last.lat.v \in {-9000, 9000} \/ last.lng.v \in {-18000, 18000}))
              => last.out.path # "invalid"

\* A call at latitude 90 exactly finds the place next to the pole.
C2_Witness ==
    /\ last.op = "reverse" /\ last.lat = Num(9000) /\ last.lng = Num(0)
    /\ last.out.result.city = "Nord"

\* C3: reverseGeocode returns the empty record when the nearest candidate of
\* the searched cells is farther than 0.0157 rad, so a record it returns lies
\* within 0.0157 rad of the query point.
C3_Cutoff ==
    IsReverse =>
        /\ (/\ last.out.candidates # <<>>
            /\ \A k \in 1..Len(last.out.candidates) :
                   last.out.candidates[k].dist > MAX_DISTANCE)
              => last.out.result = EmptyCity
        /\ last.out.result # EmptyCity => ResultDistance <= MAX_DISTANCE

\* A call whose nearest candidate is just beyond the cutoff.
C3_Witness ==
    /\ last.op = "reverse" /\ last.out.path = "too-far"
    /\ last.out.candidates # <<>> /\ last.out.result = EmptyCity

\* C4: when the nearest candidate has fewer than 500,000 inhabitants, a
\* further candidate within 0.00157 rad with at least ten times its population
\* is returned in its place; a nearest candidate of 500,000 or more is
\* returned unchanged.
C4_Override ==
    IsReverse /\ last.out.path = "found" =>
        /\ last.out.candidates[1].city.population >= 500000
              => last.out.result = last.out.candidates[1].city
        /\ (/\ last.out.candidates[1].city.population < 500000
            /\ \E i \in 2..Len(last.out.candidates) :
                   /\ last.out.candidates[i].dist <= NEARBY_THRESHOLD
                   /\ last.out.candidates[i].city.population
                        >= 10 * last.out.candidates[1].city.population)
              => \E i \in 2..Len(last.out.candidates) :
                   /\ last.out.candidates[i].dist <= NEARBY_THRESHOLD
                   /\ last.out.candidates[i].city.population
                        >= 10 * last.out.candidates[1].city.population
                   /\ last.out.result = last.out.candidates[i].city

\* Whether r is the only record of f's corpus that carries its city name.
UniqueName(f, r) ==
    Cardinality({ k \in 1..Len(facades[f].cities) :
                    facades[f].cities[k].city = r.city }) = 1

\* Whether another record of f's corpus has the coordinates of r.
SharesCoordinates(f, r) ==
    \E k \in 1..Len(facades[f].cities) :
        /\ facades[f].cities[k] # r
        /\ facades[f].cities[k].latitude = r.latitude
        /\ facades[f].cities[k].longitude = r.longitude

\* Whether another record of f's corpus lies within 0.00157 rad of r and has
\* at least ten times its population.
Overshadowed(f, r) ==
    \E k \in 1..Len(facades[f].cities) :
        /\ facades[f].cities[k] # r
        /\ angularDistance(latLngFromDegrees(r.latitude, r.longitude),
                           latLngFromDegrees(facades[f].cities[k].latitude,
                                             facades[f].cities[k].longitude))
             <= NEARBY_THRESHOLD
        /\ facades[f].cities[k].population >= 10 * r.population

\* C5 as stated: a record that geocode returned and whose city name is unique
\* in the corpus is found again, by name, by reverseGeocode at its own
\* coordinates.
C5_RoundTrip ==
    last.op = "roundtrip" /\ UniqueName(last.f, held.out.result)
        => last.out.result.city = held.out.result.city

\* C5, amended: the round trip gives the city name back when, besides the
\* name being unique, no other record shares the coordinates and the record
\* has 500,000 inhabitants or more or no other record within 0.00157 rad has
\* at least ten times its population.
C5_RoundTripUnshadowed ==
    (/\ last.op = "roundtrip"
     /\ UniqueName(last.f, held.out.result)
     /\ ~SharesCoordinates(last.f, held.out.result)
     /\ \/ held.out.result.population >= 500000
        \/ ~Overshadowed(last.f, held.out.result))
        => last.out.result.city = held.out.result.city

\* The round trip of a small town whose large neighbour is farther than
\* 0.00157 rad but among the candidates of the reverse lookup.
C5_Witness ==
    /\ last.op = "roundtrip" /\ held.n = "Vasai"
    /\ held.out.result.city = "Vasai" /\ last.out.result.city = "Vasai"
    /\ \E i \in 2..Len(last.out.candidates) :
           last.out.candidates[i].city.population
              > 10 * held.out.result.population

\* The call held and the last call are geocode calls on one facade with the
\* same options.
SameFacadeAndOptions ==
    /\ held.op = "geocode" /\ last.op = "geocode"
    /\ held.f = last.f /\ held.opts = last.opts

\* C6: two geocode calls with the same query and options on one facade return
\* the same record, whatever was asked or created in between and whether or
\* not the administrative divisions had been read yet.
C6_Deterministic ==
    SameFacadeAndOptions /\ held.n = last.n
        => last.out.result = held.out.result

\* The same query before and after the other facade was created, the first
\* call being the one that read the administrative divisions.
C6_Witness ==
    /\ SameFacadeAndOptions /\ held.n = "Boston ENG" /\ last.n = "Boston ENG"
    /\ held.out.pieces.adminRead /\ adminCache["d1"].cached
    /\ facades["g2"].made
    /\ last.out.result.city = "Boston" /\ last.out.result = held.out.result

\* The first MAX_GEOCODE_INPUT_LEN scalars of n.
FirstScalars(n) ==
    IF Len(n) > MAX_GEOCODE_INPUT_LEN THEN SubSeq(n, 1, MAX_GEOCODE_INPUT_LEN) ELSE n

\* C7 as stated: a query longer than MAX_GEOCODE_INPUT_LEN scalars gets the
\* record that geocode returns for its first MAX_GEOCODE_INPUT_LEN scalars.
C7_Truncation ==
    (/\ SameFacadeAndOptions
     /\ Len(held.n) > MAX_GEOCODE_INPUT_LEN
     /\ last.n = FirstScalars(held.n))
        => last.out.result = held.out.result

\* C7, amended: a query longer than MAX_GEOCODE_INPUT_LEN scalars gets the
\* record that geocode returns for the first MAX_GEOCODE_INPUT_LEN scalars of
\* the query with its whitespace collapsed and trimmed, when that prefix does
\* not end in a space.
C7_TruncationNormalised ==
    (/\ SameFacadeAndOptions
     /\ Len(held.n) > MAX_GEOCODE_INPUT_LEN
     /\ last.n = FirstScalars(Trim(CollapseWhitespace(held.n)))
     /\ ~EndsWith(last.n, " "))
        => last.out.result = held.out.result

\* A long query whose cut removes the end of a country name, and its prefix:
\* both resolve without the country.
C7_Witness ==
    /\ SameFacadeAndOptions /\ ~held.opts.exactCity
    /\ Len(held.n) > MAX_GEOCODE_INPUT_LEN
    /\ Len(Trim(CollapseWhitespace(held.n))) > MAX_GEOCODE_INPUT_LEN
    /\ last.n = FirstScalars(held.n)
    /\ held.out.processed = last.n /\ held.out.pieces.countryISO = ""
    /\ held.out.result.city = "Boston" /\ last.out.result = held.out.result

\* Whether key is a key of the name index of facade f.
IsKey(f, key) == MapGet(facades[f].nameIndex, key) # <<>>

\* C8 as stated: with fuzzy_distance 0, when neither the lowercased query nor
\* the space-joined name_slice nor any name_slice token is a key of the name
\* index, geocode returns the empty record, not the first city of the corpus.
C8_NoDefault ==
    (/\ last.op = "geocode" /\ last.opts.fuzzyDistance = 0
     /\ ~IsKey(last.f, toLower(last.out.processed))
     /\ ~IsKey(last.f, toLower(Join(last.out.pieces.nameSlice)))
     /\ \A k \in 1..Len(last.out.pieces.nameSlice) :
            ~IsKey(last.f, toLower(last.out.pieces.nameSlice[k])))
        => last.out.result = EmptyCity

\* A token without the comma it may end in.
CommaLess(t) ==
    IF t # "" /\ SubSeq(t, Len(t), Len(t)) = "," THEN SubSeq(t, 1, Len(t) - 1) ELSE t

\* C8, amended: the tokens are looked up with a trailing comma removed, so
\* the empty record is returned when no such token is a key either.
C8_NoDefaultTrimmed ==
    (/\ last.op = "geocode" /\ last.opts.fuzzyDistance = 0
     /\ ~IsKey(last.f, toLower(last.out.processed))
     /\ ~IsKey(last.f, toLower(Join(last.out.pieces.nameSlice)))
     /\ \A k \in 1..Len(last.out.pieces.nameSlice) :
            ~IsKey(last.f, toLower(CommaLess(last.out.pieces.nameSlice[k]))))
        => last.out.result = EmptyCity

\* A query one letter away from a key, in scored mode without fuzziness: no
\* candidate, the empty record.
C8_Witness ==
    /\ last.op = "geocode" /\ last.n = "Pariss"
    /\ last.opts.fuzzyDistance = 0 /\ ~last.opts.exactCity
    /\ last.out.pieces.nameSlice = <<"Pariss">>
    /\ last.out.candidates = <<>> /\ last.out.result = EmptyCity

\* Whether n has a word of two capital letters.
HasCapitalPair(n) ==
    \E k \in 1..Len(AbbrevMatches(n)) : Len(AbbrevMatches(n)[k]) = 2

\* Whether n is, letter for letter, an alternate name of a record of f.
IsAlternateSpelling(f, n) ==
    \E c \in 1..Len(facades[f].cities) :
        \E k \in 1..Len(Split(facades[f].cities[c].cityAlt, ",")) :
            Trim(Split(facades[f].cities[c].cityAlt, ",")[k]) = n

\* C9 as stated: two queries that differ only in letter case resolve to the
\* same city and country.
C9_CaseInsensitive ==
    SameFacadeAndOptions /\ toLower(held.n) = toLower(last.n)
        => /\ last.out.result.city = held.out.result.city
           /\ cityCountry(Tables, last.out.result) = cityCountry(Tables, held.out.result)

\* C9, amended: they do when neither query has a word of two capital letters
\* and neither is spelled exactly like an alternate name of a record.
C9_CaseInsensitivePlain ==
    (/\ SameFacadeAndOptions /\ toLower(held.n) = toLower(last.n)
     /\ ~HasCapitalPair(held.out.processed) /\ ~HasCapitalPair(last.out.processed)
     /\ ~IsAlternateSpelling(held.f, held.out.processed)
     /\ ~IsAlternateSpelling(last.f, last.out.processed))
        => /\ last.out.result.city = held.out.result.city
           /\ cityCountry(Tables, last.out.result) = cityCountry(Tables, held.out.result)

\* A query with a state name, typed with capitals and without: the same
\* city of the same country.
C9_Witness ==
    /\ SameFacadeAndOptions
    /\ held.n = "Paris, Texas" /\ last.n = "paris, texas"
    /\ held.out.pieces.stateCode = "TX" /\ last.out.pieces.stateCode = "TX"
    /\ last.out.result.city = "Paris" /\ last.out.result = held.out.result
    /\ cityCountry(Tables, last.out.result) = "US"

\* C10: in scored mode, when the fast path does not fire, the record returned
\* has the highest final score of the scored candidates and, among those with
\* that score, the highest population.
C10_BestScore ==
    last.op = "geocode" /\ last.out.path = "scored" /\ last.out.idx >= 0 =>
        \E e \in 1..Len(last.out.scores) :
            /\ last.out.scores[e].key = last.out.idx
            /\ \A d \in 1..Len(last.out.scores) :
                   /\ last.out.scores[d].val <= last.out.scores[e].val
                   /\ last.out.scores[d].val = last.out.scores[e].val
                        => CityAt(facades[last.f], last.out.scores[d].key).population
                             <= last.out.result.population

\* Two candidates with the same highest score, the second of them returned
\* for its population.
C10_Witness ==
    /\ last.op = "geocode" /\ last.out.path = "scored" /\ last.out.idx >= 0
    /\ \E d, e \in 1..Len(last.out.scores) :
           /\ d < e
           /\ last.out.scores[e].key = last.out.idx
           /\ last.out.scores[d].val = last.out.scores[e].val
           /\ CityAt(facades[last.f], last.out.scores[d].key).population
                < last.out.result.population

\* The last call is a geocode call that went through exactMatchCity.
IsExactCall == last.op = "geocode" /\ last.opts.exactCity /\ last.out.path = "exact"

\* The survivors of the name filter of the last exact call, as records.
Survivors ==
    { CityAt(facades[last.f], last.out.matching[k]) : k \in 1..Len(last.out.matching) }

\* C11: in exact mode, a query without country or state qualifier that
\* several candidates survive returns the survivor of highest population.
C11_ExactLargest ==
    (/\ IsExactCall
     /\ last.out.pieces.countryISO = "" /\ last.out.pieces.stateCode = ""
     /\ Len(last.out.matching) > 1)
        => /\ last.out.result \in Survivors
           /\ \A c \in Survivors : c.population <= last.out.result.population

\* C12: in exact mode the empty record is returned only when no candidate
\* survived the name filter.
C12_ExactNonEmpty ==
    IsExactCall /\ last.out.matching # <<>> => last.out.result # EmptyCity

\* C13: in exact mode, a query with a country qualifier and no state
\* qualifier, with a survivor in that country, returns the survivor of that
\* country of highest population.
C13_ExactCountry ==
    (/\ IsExactCall
     /\ last.out.pieces.countryISO # "" /\ last.out.pieces.stateCode = ""
     /\ \E c \in Survivors : cityCountry(Tables, c) = last.out.pieces.countryISO)
        => /\ last.out.result \in Survivors
           /\ cityCountry(Tables, last.out.result) = last.out.pieces.countryISO
           /\ \A c \in Survivors :
                  cityCountry(Tables, c) = last.out.pieces.countryISO
                      => c.population <= last.out.result.population

\* The countries of facade f whose name matches the query n in one of the
\* five ways of the country pass.
MatchingCountries(f, n) ==
    { k \in 1..Len(facades[f].countries) :
        \/ toLower(n) = toLower(facades[f].countries[k].country)
        \/ StartsWith(toLower(n), toLower(facades[f].countries[k].country) \o ", ")
        \/ StartsWith(toLower(n), toLower(facades[f].countries[k].country) \o " ")
        \/ EndsWith(toLower(n), ", " \o toLower(facades[f].countries[k].country))
        \/ EndsWith(toLower(n), " " \o toLower(facades[f].countries[k].country)) }

\* C14: when several country names match the query, country_iso is that of
\* the longest of them.
C14_LongestCountry ==
    (/\ last.op = "geocode" /\ last.out.path # "blank"
     /\ MatchingCountries(last.f, last.out.processed) # {})
        => \E k \in MatchingCountries(last.f, last.out.processed) :
              /\ last.out.pieces.countryISO = facades[last.f].countries[k].iso
              /\ \A j \in MatchingCountries(last.f, last.out.processed) :
                     Len(facades[last.f].countries[j].country)
                        <= Len(facades[last.f].countries[k].country)

\* A query that ends in " South Sudan", and so in " Sudan" too: the country
\* is South Sudan and the city is found there.
C14_Witness ==
    /\ last.op = "geocode" /\ last.n = "Juba South Sudan"
    /\ Cardinality(MatchingCountries(last.f, last.out.processed)) = 2
    /\ last.out.pieces.countryISO = "SS"
    /\ last.out.result.city = "Juba"

\* C15: whatever the overlap of the getDefaultGeobed calls, at most one
\* GeoBed.create() is started, and every caller that resolved holds the
\* instance of that one construction.
C15_Singleton ==
    /\ Len(constructions) <= 1
    /\ \A c \in Callers :
          callers[c].pc = "resolved"
              => /\ callers[c].value = 1
                 /\ constructions[1].state = "fulfilled"
                 /\ defaultGeoBed = 1
    /\ \A c, d \in Callers :
          callers[c].pc = "resolved" /\ callers[d].pc = "resolved"
              => constructions[callers[c].value].g = constructions[callers[d].value].g

\* Two calls overlapped on the one pending promise: one caller has resolved
\* with the instance, another still awaits the promise, a third came after
\* the instance was set.
C15_Witness ==
    /\ Len(constructions) = 1
    /\ constructions[1].g.made
    /\ \E a, b, c \in Callers :
          /\ callers[a].pc = "resolved" /\ callers[a].promise = 1
          /\ callers[b].pc = "awaiting" /\ callers[b].promise = 1
          /\ callers[c].pc = "resolved" /\ callers[c].promise = 0

\* C16: after any sequence of intern calls id 0 is the empty string; the
\* strings seen and the ids 0..count-1 correspond one to one; interning a
\* string seen before returns its id and leaves the table as it is;
\* get(intern(s)) = s; get(i) is '' for i outside 0..count-1; and a call
\* only ever appends to the table.
C16_Interner ==
    /\ [](/\ get(interner, 0) = ""
          /\ DOMAIN interner.index = { interner.lookup[i] : i \in 1..count(interner) }
          /\ \A i \in 0..(count(interner) - 1) :
                /\ interner.index[get(interner, i)] = i
                /\ intern(interner, get(interner, i)) = [id |-> i, t |-> interner]
          /\ \A s \in InternInputs :
                get(intern(interner, s).t, intern(interner, s).id) = s
          /\ \A i \in {-2, -1} \cup (count(interner)..(count(interner) + 2)) :
                get(interner, i) = ""
          /\ last.op = "intern" => get(interner, last.out.id) = last.n
          /\ last.op = "get" /\ last.out.idx \notin 0..(count(interner) - 1)
                => last.out.str = "")
    /\ [][/\ count(interner') >= count(interner)
          /\ \A i \in 0..(count(interner) - 1) : get(interner', i) = get(interner, i)]_vars

\* "US" was interned first and is interned again when the table holds all
\* five strings: the call returns id 1 and the table keeps its five entries.
C16_Witness ==
    /\ last.op = "intern" /\ last.n = "US" /\ last.out.id = 1
    /\ count(interner) = Cardinality(InternInputs)

\* The step is a create on facade last'.f that returned a facade.
CreateReturned == last'.op = "create" /\ last'.out.ok

\* The cities a facade holds, written as storeCache writes them, given the
\* interner tables.
Written(g, cl, rl) ==
    storeCache([countryLookup |-> cl, regionLookup |-> rl],
               g.cities, g.countries, g.nameIndex)

\* The lines of cities1000 that parse, as storeCache writes their records.
SourceRecords ==
    { [city |-> Trim(GeonamesRows[k].name), cityAlt |-> GeonamesRows[k].alt,
       country |-> GeonamesRows[k].country, region |-> GeonamesRows[k].admin1,
       latitude |-> GeonamesRows[k].lat.v, longitude |-> GeonamesRows[k].lng.v,
       population |-> GeonamesRows[k].population] :
        k \in { j \in 1..Len(GeonamesRows) :
                  /\ GeonamesRows[j].lat.kind = "num"
                  /\ Trim(GeonamesRows[j].name) # "" } }

\* The records `written` are the records parsed from the source files, each
\* once.
ExactlySource(written) ==
    /\ Len(written.cities) = Cardinality(SourceRecords)
    /\ { written.cities[k] : k \in 1..Len(written.cities) } = SourceRecords
    /\ written.countries = SelectSeq(CountryRows, LAMBDA r : r.iso \notin {"", "0"})

\* The three files of the cache decode to something non-empty.
AllThreeLoad(cached) ==
    /\ cached.corrupt = {}
    /\ cached.cities # <<>> /\ cached.countries # <<>> /\ cached.nameIndex # <<>>

\* The try block of create meets a file it cannot decode.
DecodingThrows(cached) ==
    \/ "cities" \in cached.corrupt
    \/ /\ cached.cities # <<>>
       /\ cached.corrupt \cap {"countries", "nameIndex"} # {}

\* C17: a create that returns a facade took the corpus from the cache when
\* the three cache files loaded non-empty, and left the cache as it was;
\* otherwise the corpus is rebuilt from the source files and the cache is
\* rewritten with it.
C17_CacheOrRebuild ==
    [][CreateReturned =>
          LET Decided(cached, written) ==
                  IF AllThreeLoad(cached)
                  THEN /\ last'.out.loaded
                       /\ written = cached
                       /\ cacheStore' = cacheStore
                  ELSE /\ ~last'.out.loaded
                       /\ ExactlySource(written)
                       /\ cacheStore'[Config(last'.f).cacheDir] = written
          IN Decided(cacheStore[Config(last'.f).cacheDir],
                     Written(facades'[last'.f], countryLookup', regionLookup'))]_vars

\* The name index of the cache dir was deleted, and the create after it
\* rebuilt the corpus and stored the three files again.
C17_Witness ==
    /\ last.op = "create" /\ last.out.ok /\ ~last.out.loaded
    /\ held.op = "damage" /\ held.out.absent = {"nameIndex"} /\ held.out.corrupt = {}
    /\ AllThreeLoad(cacheStore[Config(last.f).cacheDir])
    /\ facades[last.f].countries # <<>>

\* C18: a create whose reading of the cache throws does not reject for it
\* (it rejects only with data files missing), and the facade it returns holds
\* exactly the records parsed from the source files, each once.
C18_SwallowedRebuild ==
    [][last'.op = "create" /\ DecodingThrows(cacheStore[Config(last'.f).cacheDir]) =>
          /\ ~last'.out.loaded
          /\ ~last'.out.ok =>
                dataFiles'[Config(last'.f).dataDir]
                    # { DataFileNames[k] : k \in 1..Len(DataFileNames) }
          /\ last'.out.ok =>
                ExactlySource(Written(facades'[last'.f], countryLookup',
                                      regionLookup'))]_vars

\* The countries file of the cache dir was overwritten with bytes that do not
\* decode, after cities that do: the create after it returned a facade with
\* as many cities as the source has lines that parse.
C18_Witness ==
    /\ last.op = "create" /\ last.out.ok /\ ~last.out.loaded
    /\ held.op = "damage" /\ held.out.corrupt = {"countries"} /\ held.out.absent = {}
    /\ Len(facades[last.f].cities) = Cardinality(SourceRecords)

\* C19: create rejects when the corpus it loaded has fewer than
\* MIN_CITY_COUNT cities or fewer than MIN_COUNTRY_COUNT countries, so a
\* facade it returned has at least as many.
C19_Validated ==
    last.op = "create" /\ last.out.ok
        => /\ Len(facades[last.f].cities) >= MIN_CITY_COUNT
           /\ Len(facades[last.f].countries) >= MIN_COUNTRY_COUNT

\* C20: a caller that modifies a record a query returned does not change the
\* corpus: every facade holds the corpus its create built.
C20_Independent ==
    \A f \in Handles : facades[f].made => AsBuilt(facades[f])

\* The keys the claim gives city c: its lowercased name, and the lowercased
\* trimmed form of each non-empty segment of its alt-name blob between commas.
ClaimedKeys(c) ==
    (IF c.city = "" THEN {} ELSE {toLower(c.city)})
    \cup (IF c.cityAlt = "" THEN {}
          ELSE { toLower(Trim(Split(c.cityAlt, ",")[k])) :
                    k \in { j \in 1..Len(Split(c.cityAlt, ",")) :
                              Trim(Split(c.cityAlt, ",")[j]) # "" } })

\* C21: in the name index of every facade, key k holds city index i exactly
\* when k is one of the keys of city i; every key is its own lowercasing,
\* every index a corpus index, and no key is held twice.
C21_NameIndex ==
    \A f \in Handles :
        facades[f].made =>
            LET Agrees(cities, m) ==
                    /\ \A e \in 1..Len(m) :
                          /\ m[e].key = toLower(m[e].key)
                          /\ m[e].val # <<>>
                          /\ \A d \in 1..Len(m) : m[d].key = m[e].key => d = e
                          /\ \A v \in 1..Len(m[e].val) :
                                /\ m[e].val[v] \in 0..(Len(cities) - 1)
                                /\ m[e].key \in ClaimedKeys(cities[m[e].val[v] + 1])
                    /\ \A i \in 1..Len(cities) :
                          \A k \in ClaimedKeys(cities[i]) :
                              \E e \in 1..Len(m) :
                                  /\ m[e].key = k
                                  /\ \E v \in 1..Len(m[e].val) : m[e].val[v] = i - 1
            IN Agrees(facades[f].cities, facades[f].nameIndex)

\* A facade whose index holds the two-word alias "big apple" as one key, for
\* New York alone, holds no key "apple", and holds the alias written after
\* ", " under its trimmed form.
C21_Witness ==
    \E f \in Handles :
        /\ facades[f].made
        /\ Len(MapGet(facades[f].nameIndex, "big apple")) = 1
        /\ facades[f].cities[MapGet(facades[f].nameIndex, "big apple")[1] + 1].city = "New York"
        /\ MapGet(facades[f].nameIndex, "apple") = <<>>
        /\ MapGet(facades[f].nameIndex, "bombaim") # <<>>
        /\ MapGet(facades[f].nameIndex, " bombaim") = <<>>

\* C22: the four edge neighbors of a cell are cells of its level, pairwise
\* distinct and different from the cell, also for a cell on the edge of a
\* cube face.
C22_FourNeighbors ==
    last.op = "neighbors" =>
        /\ Len(last.out.neighbors) = 4
        /\ \A k \in 1..4 :
              /\ last.out.neighbors[k].level = last.out.cell.level
              /\ last.out.neighbors[k] # last.out.cell
              /\ \A m \in 1..4 : last.out.neighbors[k] = last.out.neighbors[m] => k = m

\* Away from the edges of its face a cell has the four neighbors of the claim.
C22_Interior ==
    (/\ last.op = "neighbors"
     /\ last.out.cell.i \in 1..(2 ^ last.out.cell.level - 2)
     /\ last.out.cell.j \in 1..(2 ^ last.out.cell.level - 2))
        => C22_FourNeighbors

\* The rules R1-R10 for candidate v of the scored call `last`, each read from
\* its own condition; R8 is left out for a candidate R7 holds for exactly
\* when r8AfterR7 is FALSE.
RuleSum(v, r8AfterR7) ==
    LET n == NormalizeQuery(last.n)
        nLower == toLower(n)
        pieces == last.out.pieces
        vRegion == cityRegion(Tables, v)
        vCountry == cityCountry(Tables, v)
        cityLower == toLower(v.city)
        tokens == [k \in 1..Len(pieces.nameSlice) |-> StripTrailingComma(pieces.nameSlice[k])]
        alts == LET parts == Split(v.cityAlt, ",")
                IN { Trim(parts[k]) : k \in 1..Len(parts) } \ {""}
        Count(S) == Cardinality(S)
        Abbrevs(code) ==
            { k \in 1..Len(pieces.abbrevSlice) :
                /\ Len(pieces.abbrevSlice[k]) = 2
                /\ toLower(pieces.abbrevSlice[k]) = toLower(code) }
        R7 == nLower = cityLower \/ nLower = stripDiacritics(cityLower)
        R1 == 5 * Count(Abbrevs(vRegion))
        R2 == 3 * Count(Abbrevs(vCountry))
        R3 == IF pieces.countryISO # "" /\ pieces.countryISO = vCountry THEN 4 ELSE 0
        R4 == IF pieces.stateCode # "" /\ pieces.stateCode = vRegion THEN 4 ELSE 0
        R5 == IF \E a \in alts : toLower(a) = nLower THEN 3 ELSE 0
        R6 == IF \E a \in alts : a = n THEN 5 ELSE 0
        R8 == IF last.opts.fuzzyDistance > 0 /\ (r8AfterR7 \/ ~R7)
              THEN 5 * Count({ k \in 1..Len(tokens) :
                                 /\ Len(tokens[k]) > 2
                                 /\ fuzzyMatch(tokens[k], v.city, last.opts.fuzzyDistance) })
              ELSE 0
        R9 == 2 * Count({ k \in 1..Len(tokens) :
                            \/ Includes(cityLower, toLower(tokens[k]))
                            \/ Includes(stripDiacritics(cityLower), toLower(tokens[k])) })
        R10 == Count({ k \in 1..Len(tokens) :
                         \/ cityLower = toLower(tokens[k])
                         \/ stripDiacritics(cityLower) = toLower(tokens[k]) })
    IN R1 + R2 + R3 + R4 + R5 + R6 + (IF R7 THEN 7 ELSE 0) + R8 + R9 + R10

\* The scored call `last` went through the scoring loop.
ScoredThrough ==
    /\ last.op = "geocode"
    /\ ~last.opts.exactCity
    /\ last.out.path \in {"scored", "no-score"}

\* C23 as stated: the score of every candidate is the sum of the bonuses of
\* all the rules R1-R10 whose condition holds, R8 included for a candidate
\* whose city equals the query.
C23_AllRulesFire ==
    ScoredThrough =>
        \A k \in 1..Len(last.out.candidates) :
            ScoreOf(last.out.scored, last.out.candidates[k])
                = RuleSum(CityAt(facades[last.f], last.out.candidates[k]), TRUE)

\* C23: the score of every candidate is the sum of the bonuses of the rules
\* R1-R10 whose condition holds, except that R8 is applied only to a
\* candidate R7 does not hold for: with fuzzy_distance > 0 a candidate whose
\* city equals the query receives R7 (+7) and nothing from R8.
C23_RulesFire ==
    ScoredThrough =>
        \A k \in 1..Len(last.out.candidates) :
            ScoreOf(last.out.scored, last.out.candidates[k])
                = RuleSum(CityAt(facades[last.f], last.out.candidates[k]), FALSE)

\* A fuzzy call scored a candidate whose city equals the query and is within
\* the edit distance of a token of the query.
C23_Witness ==
    /\ ScoredThrough
    /\ last.opts.fuzzyDistance > 0
    /\ \E k \in 1..Len(last.out.candidates) :
          LET v == CityAt(facades[last.f], last.out.candidates[k])
          IN /\ toLower(NormalizeQuery(last.n)) = toLower(v.city)
             /\ RuleSum(v, TRUE) > RuleSum(v, FALSE)
             /\ ScoreOf(last.out.scored, last.out.candidates[k]) = RuleSum(v, FALSE)

\* R7 and R4 both hold for candidate v of the scored call `last`.
NameAndState(v) ==
    /\ \/ toLower(last.out.processed) = toLower(v.city)
       \/ toLower(last.out.processed) = stripDiacritics(toLower(v.city))
    /\ last.out.pieces.stateCode = cityRegion(Tables, v)

\* The scored call `last` found a state code and gathered a candidate that
\* R7 and R4 hold for.
StateAndNameGathered ==
    /\ last.op = "geocode"
    /\ ~last.opts.exactCity
    /\ last.out.path # "blank"
    /\ last.out.pieces.stateCode # ""
    /\ \E k \in 1..Len(last.out.candidates) :
          NameAndState(CityAt(facades[last.f], last.out.candidates[k]))

\* C24: when state_code is not empty and R7 and R4 hold for some candidate,
\* geocode returns such a candidate at once, on the fast path, no score
\* being compared.
C24_FastPath ==
    StateAndNameGathered =>
        /\ last.out.path = "fast"
        /\ NameAndState(last.out.result)

\* The fast path as the loop takes it: for the lowercased name itself.
C24_FastPathLowercased ==
    (/\ StateAndNameGathered
     /\ \E k \in 1..Len(last.out.candidates) :
           LET v == CityAt(facades[last.f], last.out.candidates[k])
           IN /\ toLower(last.out.processed) = toLower(v.city)
              /\ last.out.pieces.stateCode = cityRegion(Tables, v))
        => /\ last.out.path = "fast"
           /\ toLower(last.out.processed) = toLower(last.out.result.city)
           /\ last.out.pieces.stateCode = cityRegion(Tables, last.out.result)

C24_FastPathTaken ==
    /\ StateAndNameGathered
    /\ last.out.path = "fast"

\* The query of the call `last` as it reaches the admin-division pass: what
\* the country-name, state-code and state-name passes left of it.
BeforeAdminPass ==
    LET AfterStateCode(p2) ==
            IF p2.stateCode = ""
            THEN StateNamePass(p2.n, p2.countryISO, US_STATE_CODES)
            ELSE p2
        AfterCountry(p1) ==
            AfterStateCode(StateCodePass(p1.n, p1.countryISO, US_STATE_CODES))
    IN AfterCountry(CountryPass(last.out.processed,
                                facades[last.f].countriesByNameLength))

\* The last token of the residual query, without commas and spaces, in
\* upper case.
LastToken(n) ==
    LET Of(parts) == toUpper(StripCommaSpace(parts[Len(parts)]))
    IN Of(Split(n, " "))

\* The countries holding a division of the given code, in the table the
\* call read.
DivisionOwners(code) ==
    { d[1] : d \in { e \in loadAdminDivisionsForDir(adminCache, dataFiles,
                                                    facades[last.f].config.dataDir) :
                       e[2] = code } }

\* The conditions under which the fourth pass takes the last token.
AdminTokenAccepted(p3) ==
    /\ p3.stateCode = ""
    /\ Len(Split(p3.n, " ")) >= 2
    /\ Len(LastToken(p3.n)) \in 2..3
    /\ \/ p3.countryISO # "" /\ p3.countryISO \in DivisionOwners(LastToken(p3.n))
       \/ p3.countryISO = "" /\ Cardinality(DivisionOwners(LastToken(p3.n))) = 1

GeocodeExtracted ==
    /\ last.op = "geocode"
    /\ last.out.path # "blank"

\* C25: the fourth pass takes the last token as state_code exactly when
\* state_code is empty, the residual has two tokens or more, the token has 2
\* or 3 characters and either country_iso is set and holds that division, or
\* country_iso is empty and one country alone holds it (which country_iso
\* becomes); otherwise state_code and country_iso stay as they were.
C25_AdminPass ==
    GeocodeExtracted =>
        LET Holds(p3) ==
                IF AdminTokenAccepted(p3)
                THEN /\ last.out.pieces.stateCode = LastToken(p3.n)
                     /\ last.out.pieces.countryISO \in DivisionOwners(LastToken(p3.n))
                     /\ p3.countryISO # "" => last.out.pieces.countryISO = p3.countryISO
                ELSE /\ last.out.pieces.stateCode = p3.stateCode
                     /\ last.out.pieces.countryISO = p3.countryISO
        IN Holds(BeforeAdminPass)

\* A call whose last token two countries hold as a division code, and which
\* came out of the pass with no state code and no country.
C25_Witness ==
    /\ GeocodeExtracted
    /\ BeforeAdminPass.stateCode = ""
    /\ BeforeAdminPass.countryISO = ""
    /\ Len(Split(BeforeAdminPass.n, " ")) >= 2
    /\ Cardinality(DivisionOwners(LastToken(BeforeAdminPass.n))) = 2
    /\ last.out.pieces.stateCode = ""
    /\ last.out.pieces.countryISO = ""

\* Calls in which the pass took the token: with the country known before,
\* and with the country found from the code.
C25_TakenWithCountry ==
    /\ GeocodeExtracted
    /\ BeforeAdminPass.countryISO # ""
    /\ AdminTokenAccepted(BeforeAdminPass)
    /\ last.out.pieces.stateCode = LastToken(BeforeAdminPass.n)
C25_TakenByCode ==
    /\ GeocodeExtracted
    /\ BeforeAdminPass.countryISO = ""
    /\ AdminTokenAccepted(BeforeAdminPass)
    /\ last.out.pieces.stateCode = LastToken(BeforeAdminPass.n)
    /\ last.out.pieces.countryISO # ""

\* What the country-name pass made of the query of the call `last`.
AfterCountryPass ==
    CountryPass(last.out.processed, facades[last.f].countriesByNameLength)

\* C26: a country_iso set by the country-name pass is the one the call ends
\* with, whether or not the state-code or state-name pass sets state_code;
\* these passes put 'US' only where country_iso is still empty.
C26_CountryKept ==
    GeocodeExtracted =>
        /\ AfterCountryPass.countryISO # ""
              => last.out.pieces.countryISO = AfterCountryPass.countryISO
        /\ (AfterCountryPass.countryISO = "" /\ BeforeAdminPass.stateCode # "")
              => /\ last.out.pieces.countryISO = "US"
                 /\ last.out.pieces.stateCode = BeforeAdminPass.stateCode

\* A call naming a country other than the United States and a US state, by
\* its code or by its name.
C26_Witness ==
    /\ GeocodeExtracted
    /\ AfterCountryPass.countryISO \notin {"", "US"}
    /\ BeforeAdminPass.stateCode # ""
    /\ last.out.pieces.stateCode = BeforeAdminPass.stateCode
    /\ last.out.pieces.countryISO = AfterCountryPass.countryISO

C26_ByStateName ==
    /\ C26_Witness
    /\ StateCodePass(AfterCountryPass.n, AfterCountryPass.countryISO,
                     US_STATE_CODES).stateCode = ""

\* v is one of the entries of the sequence s.
Among(v, s) == \E k \in 1..Len(s) : s[k] = v

\* C27: a scored call that returns a record returns one of the candidates it
\* gathered; corpus index 0, which the population block may enter with a
\* score of 1, is returned only as a candidate the rules scored.
C27_FromCandidates ==
    (/\ last.op = "geocode"
     /\ ~last.opts.exactCity
     /\ last.out.result # EmptyCity)
        => /\ Among(last.out.idx, last.out.candidates)
           /\ last.out.result = CityAt(facades[last.f], last.out.idx)
           /\ last.out.path = "scored" => ScoreOf(last.out.scored, last.out.idx) > 0

\* The population block entered index 0, which was no candidate, and the
\* call returned a record.
C27_Witness ==
    /\ last.op = "geocode"
    /\ ~last.opts.exactCity
    /\ last.out.path = "scored"
    /\ ~Among(0, last.out.candidates)
    /\ \E e \in 1..Len(last.out.scores) :
          last.out.scores[e].key = 0 /\ last.out.scores[e].val = 1
    /\ last.out.result # EmptyCity
    /\ Among(last.out.idx, last.out.candidates)

\* reverseGeocode returned a record and its nearest candidate is a small
\* place.
SmallPlaceNearest ==
    /\ last.op = "reverse"
    /\ last.out.path = "found"
    /\ last.out.candidates[1].city.population < SMALL_PLACE_POPULATION

\* C28: when the nearest candidate has a population below 500,000, no
\* candidate within 0.00157 rad of the query has more than ten times the
\* population of the record reverseGeocode returns.
C28_NoLargerNearby ==
    SmallPlaceNearest =>
        \A k \in 1..Len(last.out.candidates) :
            last.out.candidates[k].dist <= NEARBY_THRESHOLD
                => ~(last.out.candidates[k].city.population
                        > 10 * last.out.result.population)

\* The override replaced the nearest candidate, and a third candidate lies
\* within the threshold.
C28_Witness ==
    /\ SmallPlaceNearest
    /\ last.out.idx # last.out.candidates[1].idx
    /\ Len(last.out.candidates) >= 3
    /\ last.out.candidates[3].dist <= NEARBY_THRESHOLD
    /\ last.out.candidates[3].city.population
          > 10 * last.out.candidates[1].city.population

\* The first construction getDefaultGeobed started has failed.
FirstFailed ==
    /\ Len(constructions) >= 1
    /\ constructions[1].state = "rejected"

\* C29: once the first construction has failed it stays failed, no other
\* construction is ever started, no instance is ever set, and every caller
\* holds the promise of the failed construction, whose rejection its await
\* ends with.
C29_PermanentFailure ==
    /\ [](FirstFailed =>
            /\ Len(constructions) = 1
            /\ defaultGeoBed = 0
            /\ defaultGeoBedPromise = 1
            /\ \A c \in Callers :
                  /\ callers[c].pc # "resolved"
                  /\ callers[c].pc \in {"awaiting", "rejected"} => callers[c].promise = 1)
    /\ [][FirstFailed => FirstFailed']_vars
    /\ \A c \in Callers :
          (FirstFailed /\ callers[c].pc = "awaiting") ~> (callers[c].pc = "rejected")

\* After the failure a caller that was rejected has called again, and another
\* caller has been rejected.
C29_Witness ==
    /\ FirstFailed
    /\ \E c, d \in Callers :
          /\ c # d
          /\ callers[c].pc = "rejected"
          /\ callers[d].pc = "awaiting"
          /\ callers[d].promise = 1

\* C30: however the create calls in progress interleave, every record a call
\* has made, and every record of a facade it returned, resolves through
\* cityCountry and cityRegion to the codes of the line or cache entry it was
\* made from; and no step resets an interner or gives an id another string.
C30_InternedIdsKept ==
    /\ [](\A f \in Handles :
            /\ \A x \in creating[f].loadedWith :
                  /\ cityCountry(Tables, x.rec) = x.country
                  /\ cityRegion(Tables, x.rec) = x.region
            /\ creating[f].pc = "done" =>
                  /\ facades[f].made
                  /\ \A k \in 1..Len(facades[f].cities) :
                        \E x \in creating[f].loadedWith : x.rec = facades[f].cities[k])
    /\ [][/\ \A i \in 1..Len(countryLookup) : countryLookup'[i] = countryLookup[i]
          /\ \A i \in 1..Len(regionLookup) : regionLookup'[i] = regionLookup[i]
          /\ initialized => initialized']_vars

\* Two calls returned their facades, one from the cache and one from
\* cities1000, the first having interned the cached codes while the second
\* was part way through the file: the country table is in neither order.
C30_Witness ==
    /\ \A f \in Handles : creating[f].pc = "done" /\ facades[f].made
    /\ \E f, h \in Handles :
          /\ creating[f].loaded
          /\ ~creating[h].loaded
          /\ Len(facades[f].cities) = Len(facades[h].cities)
    /\ \A w \in 1..Len(Worlds) : countryLookup # Worlds[w].tables.countryLookup

====
